---- MODULE Spec2Model ----
(***************************************************************************)
(* The transaction-server side connection layer of cubrid: the per page    *)
(* server connection_handler state machine (tran_server.cpp), the main     *)
(* connection rotation and the request retry loops of tran_server, the     *)
(* ps_connector daemon, and the active_tran_server additions (catch-up     *)
(* handshake, consensus LSA).                                              *)
(*                                                                         *)
(* Threads of the program that appear here:                                *)
(*   - "connector": the thread that calls connect(): tran_server::boot     *)
(*     first, the ps_connector daemon after boot has started it;           *)
(*   - the incoming and the sending thread of every page_server_conn_t;    *)
(*   - the teardown tasks launched by disconnect_async (std::async);       *)
(*   - the request threads calling tran_server::push_request/send_receive; *)
(*   - the thread that runs disconnect_all_page_servers (shutdown).        *)
(* A std::shared_mutex is a record [excl, shared]: excl holds the thread   *)
(* that owns it exclusively (empty when none), shared is the set of        *)
(* threads that own it shared.  A critical section that calls nothing      *)
(* blocking is one atomic step guarded by the lock being available.        *)
(***************************************************************************)
EXTENDS Integers, Sequences, FiniteSets, TLC

\* ------------------------------------------------------------------ bounds
\* number of page servers in PRM_ID_PAGE_SERVER_HOSTS, in the specification of one
\* handler with all its threads (Spec) and in the one of the main connection (SpecTS)
OneHandler == 1
MaxHandlers == 3
\* number of receive errors (connections lost) in SpecTS
MaxRecvErrors == 1
\* number of threads that call tran_server::push_request / send_receive
NumRequesters == 1
\* largest number of page servers for which compute_consensus_lsa is applied (SpecConsensus)
\* with every handler CONNECTED or IDLE, and with handlers in any of the four states
MaxNodes == 5
MaxMixedNodes == 3
\* wait_for_ps_flushed_lsa (SpecFlush): page servers, waiting threads, SEND_SAVED_LSA messages
FlushNodes == 3
NumWaiters == 1
\* tran_server::boot (SpecBoot): the most handlers that the hosts configuration registers
BootHandlers == 2
\* async_disconnect_handler (SpecAdh): the handlers that are handed over for disconnection
MaxDisconnects == 3
\* register_connection_handlers (SpecReg): the longest hosts string
MaxHostsLen == 7
\* the prior sender (SpecSink): the calls of a handler's sink hook
MaxPriorLists == 1
\* ps_connector (SpecPsc): the calls of terminate ()
NumTerminators == 3

VARIABLES
  ndebug,                        \* the build: TRUE when NDEBUG removes assert ()
  aborted,                       \* "none", or the assertion / fault that ended the process
  m_state,                       \* connection_handler::m_state, per handler
  m_conn,                        \* connection_handler::m_conn: "null" or "set"
  incoming,                      \* the conn's incoming thread: "none", "running", "in_handler", "stopped"
  sender,                        \* the conn's sending thread: "none", "idle", "in_handler"
  m_state_mtx,                   \* connection_handler::m_state_mtx: owner of a long exclusive hold
  m_conn_mtx,                    \* connection_handler::m_conn_mtx: [excl, shared]
  m_disconn_future,              \* connection_handler::m_disconn_future: "invalid" or "valid"
  tasks,                         \* the teardown tasks whose shared state still exists, oldest
                                 \* first (from is history: m_state when the task was launched)
  m_prior_sender_sink_hook_func, \* active_tran_server::connection_handler: sink registered
  catchup_pending,               \* a SEND_CATCHUP_COMPLETE of the page server is on its way
  spawned,                       \* history: teardown tasks launched since the handler last became active
  disc_msg_sent,                 \* history: SEND_DISCONNECT_MSG pushed on the current conn
  m_main_conn,                   \* tran_server::m_main_conn: 0 is nullptr, else an index
  m_main_conn_mtx,               \* tran_server::m_main_conn_mtx: [excl, shared]
  m_terminate,                   \* ps_connector::m_terminate
  connector,                     \* the thread calling connect (): boot, then the daemon
  rmc,                           \* reset_main_connection in progress, per calling thread
  requester,                     \* the request threads
  shutdown,                      \* the thread of disconnect_all_page_servers
  recv_errors,                   \* history: receive errors so far (counted in SpecTS)
  m_saved_lsa,                   \* active_tran_server::connection_handler::m_saved_lsa, per handler
  consensus,                     \* what the last call of compute_consensus_lsa returned
  m_ps_lsa_up_to_date,           \* log_global::m_ps_lsa_up_to_date
  m_ps_consensus_flushed_lsa,    \* log_global::m_ps_consensus_flushed_lsa
  m_ps_lsa_mutex,                \* log_global::m_ps_lsa_mutex: the set holding its owner
  waiter,                        \* the threads calling log_global::wait_for_ps_flushed_lsa
  last_msg,                      \* history: the last SEND_SAVED_LSA processed
  boot,                          \* tran_server::boot: configuration, position and result
  adh,                           \* async_disconnect_handler: members, threads, callers
  reg,                           \* register_connection_handlers: argument and outcome
  prior_lists,                   \* history: the calls of prior_sender_sink_hook
  psc                            \* ps_connector: m_daemon, start () and the calls of terminate ()

hvars == <<m_state, m_conn, incoming, sender, m_state_mtx, m_conn_mtx, m_disconn_future,
           tasks, m_prior_sender_sink_hook_func, catchup_pending, spawned, disc_msg_sent>>
tsvars == <<m_main_conn, m_main_conn_mtx, m_terminate>>
thvars == <<connector, rmc, requester, shutdown>>
flvars == <<m_ps_lsa_up_to_date, m_ps_consensus_flushed_lsa, m_ps_lsa_mutex, waiter, last_msg>>
vars == <<ndebug, aborted, hvars, tsvars, thvars, recv_errors, m_saved_lsa, consensus, flvars,
          boot, adh, reg, prior_lists, psc>>

\* m_page_server_conn_vec: the handlers are the indexes 1..size (), in the order of
\* registration; the vector does not change after boot has filled it
NumHandlers == Len(m_state)
Handlers == 1..NumHandlers
Requesters == 1..NumRequesters

\* tran_server::connection_handler::state
States == {"IDLE", "CONNECTING", "CONNECTED", "DISCONNECTING"}

\* log_lsa: an LSA is a number, NULL_LSA is below every LSA of the log (the order of
\* log_lsa compares NULL_LSA, page -1, as the smallest)
NULL_LSA == -1
LsaValues == {NULL_LSA, 5, 6, 9, 10}

\* no compute_consensus_lsa has returned yet
NotComputed == [computed |-> FALSE, lsa |-> NULL_LSA]

\* the saved LSAs that the page servers send and the LSAs that are waited for (SpecFlush)
SentLsas == {5, 10}
FlushTargets == {10, 12}
Waiters == 1..NumWaiters

\* a thread outside wait_for_ps_flushed_lsa; idx and collected_saved_lsa are the loop of
\* compute_consensus_lsa
IdleWaiter == [pc |-> "idle", flush_lsa |-> NULL_LSA, idx |-> 0, collected_saved_lsa |-> <<>>]
NoMsg == [h |-> 0, lsa |-> NULL_LSA, seq |-> 0]

\* log_global.c 80-81 (constructor): out of date, no consensus yet, nobody waiting
InitFlushVars ==
  /\ m_ps_lsa_up_to_date = FALSE
  /\ m_ps_consensus_flushed_lsa = NULL_LSA
  /\ m_ps_lsa_mutex = {}
  /\ waiter = [w \in Waiters |-> IdleWaiter]
  /\ last_msg = NoMsg

\* the prior sender has called no sink hook: n counts the calls, h is the handler of
\* the last one
NoPriorLists == [n |-> 0, h |-> 0]

\* tran_server.cpp 732-737, the constructor of ps_connector: m_daemon is nullptr (and
\* m_terminate true); start () has not been called, no call of terminate () has begun.
\* History: after_start, the calls of terminate () that began after start () had
\* returned; destroyed, how often destroy_daemon was called.
Terminators == 1..NumTerminators
NotStarted ==
  [start |-> "none", m_daemon |-> "null", callers |-> [t \in Terminators |-> "none"],
   after_start |-> {}, destroyed |-> 0]

\* the handlers handed to async_disconnect_handler::disconnect, each by its own caller
Disconnected == 1..MaxDisconnects

\* async_disconnect_handler.cpp (active_tran_server.cpp 340-345), the constructor:
\* m_terminate false, the queue empty, the thread started on disconnect_loop.
\* disconnect_work_buffer is the local queue of disconnect_loop; callers, where each
\* caller of disconnect () is; term, where the caller of terminate () is.  History:
\* destructed, the handlers that the worker thread has destructed; before, the handlers
\* whose disconnect () had returned when terminate () was called.
InitAdh ==
  adh = [m_terminate |-> FALSE, m_disconnect_queue |-> <<>>, disconnect_work_buffer |-> <<>>,
         worker |-> "loop_test", callers |-> [c \in Disconnected |-> "none"],
         term |-> "none", destructed |-> {}, before |-> {}]

\* error codes
NO_ERROR == "NO_ERROR"
ER_NET_PAGESERVER_CONNECTION == "ER_NET_PAGESERVER_CONNECTION"
ER_CONN_NO_PAGE_SERVER_AVAILABLE == "ER_CONN_NO_PAGE_SERVER_AVAILABLE"
ER_CONN_PAGE_SERVER_CANNOT_BE_REACHED == "ER_CONN_PAGE_SERVER_CANNOT_BE_REACHED"
ER_EMPTY_PAGE_SERVER_HOSTS_CONFIG == "ER_EMPTY_PAGE_SERVER_HOSTS_CONFIG"
ER_HOST_PORT_PARAMETER == "ER_HOST_PORT_PARAMETER"
ER_NO_PAGE_SERVER_CONNECTION == "ER_NO_PAGE_SERVER_CONNECTION"

\* the characters of PRM_ID_PAGE_SERVER_HOSTS: a letter, the two separators, two digits
HostChars == {"a", ":", ",", "9", "0"}

\* register_connection_handlers has not been called: hosts is its argument,
\* m_page_server_conn_vec the nodes (host, port) of the handlers registered
NotRegistered(hosts) ==
  [hosts |-> hosts, called |-> FALSE, m_page_server_conn_vec |-> <<>>, exit_code |-> NO_ERROR]

\* boot with local storage and a good hosts configuration, its result not followed
\* (Spec, SpecTS).  hosts: PRM_ID_PAGE_SERVER_HOSTS is empty, holds no valid token (bad) or
\* at least one (good).  History: valid_connection_count and failed_conn as
\* init_page_server_hosts left them; chosen, what is_connected () returned for the handlers
\* visited by the reset_main_connection that made the main connection.
UntrackedBoot ==
  [pc |-> "untracked", uses_remote_storage |-> FALSE, hosts |-> "good",
   valid_connection_count |-> 0, failed_conn |-> FALSE, error_code |-> NO_ERROR,
   chosen |-> <<>>]

FreeMtx == [excl |-> {}, shared |-> {}]
CanLockShared(mtx) == mtx.excl = {}
CanLockExclusive(mtx) == mtx.excl = {} /\ mtx.shared = {}

\* assert (cond): nothing when it holds or in an NDEBUG build, abort () otherwise
AssertFails(cond) == ~cond /\ ~ndebug

\* the threads that call reset_main_connection: 0 is the connector thread
Threads == {0} \cup Requesters

\* no reset_main_connection in progress.  History: seen, what is_connected () returned
\* for the handlers visited so far; was, m_main_conn when the scan ended.
NoRmc == [pc |-> "none", idx |-> 0, result |-> NO_ERROR, seen |-> <<>>, was |-> 0]

\* a request thread outside push_request / send_receive.  on: the handler whose
\* m_conn_mtx it holds shared.  History: delivered, the handler whose conn took the
\* request (0: none); rejected, the last attempt failed because its handler was not
\* CONNECTED and no reset_main_connection has followed yet; saw_connected, the
\* is_connected () that followed the last failed attempt returned true.
IdleRequester == [pc |-> "idle", op |-> "none", err_code |-> NO_ERROR, on |-> 0,
                  delivered |-> 0, rejected |-> FALSE, saw_connected |-> FALSE]

\* ------------------------------------------------------------------ Init
\* tran_server.cpp 732-737, active_tran_server.cpp 167-171 and the constructors: n
\* handlers registered, all IDLE with no conn; no main connection; the daemon not started
InitRegistered(n) ==
  /\ ndebug \in BOOLEAN
  /\ aborted = "none"
  /\ m_state = [h \in 1..n |-> "IDLE"]
  /\ m_conn = [h \in 1..n |-> "null"]
  /\ incoming = [h \in 1..n |-> "none"]
  /\ sender = [h \in 1..n |-> "none"]
  /\ m_state_mtx = [h \in 1..n |-> "free"]
  /\ m_conn_mtx = [h \in 1..n |-> FreeMtx]
  /\ m_disconn_future = [h \in 1..n |-> "invalid"]
  /\ tasks = [h \in 1..n |-> <<>>]
  /\ m_prior_sender_sink_hook_func = [h \in 1..n |-> FALSE]
  /\ catchup_pending = [h \in 1..n |-> FALSE]
  /\ spawned = [h \in 1..n |-> 0]
  /\ disc_msg_sent = [h \in 1..n |-> 0]
  /\ m_main_conn = 0
  /\ m_main_conn_mtx = FreeMtx
  /\ m_terminate = TRUE
  /\ connector = [phase |-> "boot", pc |-> "connect", idx |-> 1, newly_connected |-> FALSE,
                  ret |-> NO_ERROR]
  /\ rmc = [t \in Threads |-> NoRmc]
  /\ requester = [r \in Requesters |-> IdleRequester]
  /\ shutdown = [pc |-> "none", idx |-> 1, called_in |-> [h \in 1..n |-> "none"]]
  /\ recv_errors = 0
  /\ m_saved_lsa = [h \in 1..n |-> NULL_LSA]
  /\ consensus = NotComputed
  /\ InitFlushVars
  /\ InitAdh
  /\ prior_lists = NoPriorLists
  /\ psc = NotStarted

InitWith(n) == InitRegistered(n) /\ boot = UntrackedBoot /\ reg = NotRegistered(<<>>)

Init == InitWith(OneHandler)


\* ------------------------------------------------------------------ helpers
Abort(why) == aborted' = why

\* the newest teardown task of handler h is still running
FutureBusy(h) ==
  /\ m_disconn_future[h] = "valid"
  /\ tasks[h] # <<>>
  /\ tasks[h][Len(tasks[h])].pc # "done"

\* ------------------------------------------------- connection_handler::connect
\* tran_server.cpp 381-385: lock m_state_mtx, assert (m_state == IDLE), m_state = CONNECTING.
\* The lock stays held over the channel handshake.
ConnectBegin(h) ==
  /\ connector.pc = "connect" /\ connector.idx = h
  /\ m_state_mtx[h] = "free"
  /\ IF AssertFails(m_state[h] = "IDLE")
     THEN /\ Abort("connect: assert (m_state == state::IDLE)")
          /\ UNCHANGED <<hvars, connector>>
     ELSE /\ m_state' = [m_state EXCEPT ![h] = "CONNECTING"]
          /\ m_state_mtx' = [m_state_mtx EXCEPT ![h] = "connect"]
          /\ spawned' = [spawned EXCEPT ![h] = 0]
          /\ connector' = [connector EXCEPT !.pc = "handshake"]
          /\ UNCHANGED <<aborted, m_conn, incoming, sender, m_conn_mtx, m_disconn_future, tasks,
                         m_prior_sender_sink_hook_func, catchup_pending, disc_msg_sent>>
  /\ UNCHANGED <<ndebug, tsvars, rmc, requester, shutdown>>

\* connect () whose failed handshake leaves m_state as it is
ConnectFail_StaysConnecting(h) ==
  /\ connector.pc = "handshake" /\ connector.idx = h
  /\ m_state_mtx' = [m_state_mtx EXCEPT ![h] = "free"]
  /\ connector' = [connector EXCEPT !.pc = "ret", !.ret = ER_NET_PAGESERVER_CONNECTION]
  /\ UNCHANGED <<ndebug, aborted, m_state, m_conn, incoming, sender, m_conn_mtx,
                 m_disconn_future, tasks, m_prior_sender_sink_hook_func, catchup_pending,
                 spawned, disc_msg_sent, tsvars, rmc, requester, shutdown>>

\* tran_server.cpp 393-413 and 371-377: srv_chn.connect, send_int, recv_int or the echoed
\* type fail: m_state = IDLE under the lock, return ER_NET_PAGESERVER_CONNECTION.
ConnectFail(h) ==
  /\ connector.pc = "handshake" /\ connector.idx = h
  /\ m_state' = [m_state EXCEPT ![h] = "IDLE"]
  /\ m_state_mtx' = [m_state_mtx EXCEPT ![h] = "free"]
  /\ connector' = [connector EXCEPT !.pc = "ret", !.ret = ER_NET_PAGESERVER_CONNECTION]
  /\ UNCHANGED <<ndebug, aborted, m_conn, incoming, sender, m_conn_mtx, m_disconn_future, tasks,
                 m_prior_sender_sink_hook_func, catchup_pending, spawned, disc_msg_sent,
                 tsvars, rmc, requester, shutdown>>

\* tran_server.cpp 510-530: set_connection under m_conn_mtx: assert (m_conn == nullptr),
\* m_conn.reset (new page_server_conn_t (...)), m_conn->start ().
set_connection(h) ==
  /\ CanLockExclusive(m_conn_mtx[h])
  /\ IF AssertFails(m_conn[h] = "null")
     THEN /\ Abort("set_connection: assert (m_conn == nullptr)")
          /\ UNCHANGED <<m_conn, incoming, sender, catchup_pending, disc_msg_sent>>
     ELSE /\ m_conn' = [m_conn EXCEPT ![h] = "set"]
          /\ incoming' = [incoming EXCEPT ![h] = "running"]
          /\ sender' = [sender EXCEPT ![h] = "idle"]
          /\ catchup_pending' = [catchup_pending EXCEPT ![h] = FALSE]
          /\ disc_msg_sent' = [disc_msg_sent EXCEPT ![h] = 0]
          /\ UNCHANGED aborted

\* tran_server.cpp 415-419: the handshake succeeded: set_connection, then the state lock
\* is released with m_state still CONNECTING.
ConnectSucceed(h) ==
  /\ connector.pc = "handshake" /\ connector.idx = h
  /\ set_connection(h)
  /\ m_state_mtx' = [m_state_mtx EXCEPT ![h] = "free"]
  /\ connector' = [connector EXCEPT !.pc = "transition"]
  /\ UNCHANGED <<ndebug, m_state, m_conn_mtx, m_disconn_future, tasks,
                 m_prior_sender_sink_hook_func, spawned, tsvars, rmc, requester, shutdown>>

\* active_tran_server.cpp 254-262: transition_to_connected, first half:
\* assert (m_prior_sender_sink_hook_func == nullptr); bind the hook; add_sink.
TransitionAddSink(h) ==
  /\ connector.pc = "transition" /\ connector.idx = h
  /\ IF AssertFails(~m_prior_sender_sink_hook_func[h])
     THEN /\ Abort("transition_to_connected: assert (m_prior_sender_sink_hook_func == nullptr)")
          /\ UNCHANGED <<m_prior_sender_sink_hook_func, connector>>
     ELSE /\ m_prior_sender_sink_hook_func' = [m_prior_sender_sink_hook_func EXCEPT ![h] = TRUE]
          /\ connector' = [connector EXCEPT !.pc = "start_catch_up"]
          /\ UNCHANGED aborted
  /\ UNCHANGED <<ndebug, m_state, m_conn, incoming, sender, m_state_mtx, m_conn_mtx,
                 m_disconn_future, tasks, catchup_pending, spawned, disc_msg_sent,
                 tsvars, rmc, requester, shutdown>>

\* tran_server.cpp 672-677: push_request_regardless_of_state: m_conn_mtx shared, then
\* m_conn->push with no check of m_conn: a null m_conn is dereferenced.
push_request_regardless_of_state_ok(h) ==
  /\ CanLockShared(m_conn_mtx[h])
  /\ m_conn[h] = "set"

\* active_tran_server.cpp 264-284 and 227-246: transition_to_connected, second half.
\* After boot add_sink returns a non-null unsent_lsa and get_main_connection_info takes
\* m_main_conn_mtx shared (tran_server.cpp 493-508); then SEND_START_CATCH_UP is pushed
\* regardless of the state.  m_state is left as it is: CONNECTED comes with
\* SEND_CATCHUP_COMPLETE.  With m_conn null the push dereferences a null pointer: the
\* process faults, or the request is lost.
TransitionSendStartCatchUp(h) ==
  /\ connector.pc = "start_catch_up" /\ connector.idx = h
  /\ connector.phase = "daemon" => CanLockShared(m_main_conn_mtx)
  /\ CanLockShared(m_conn_mtx[h])
  /\ IF AssertFails(connector.phase = "daemon" => m_main_conn # 0)
     THEN /\ Abort("transition_to_connected: assert (res)")
          /\ UNCHANGED <<catchup_pending, connector>>
     ELSE IF push_request_regardless_of_state_ok(h)
     THEN /\ catchup_pending' = [catchup_pending EXCEPT ![h] = TRUE]
          /\ connector' = [connector EXCEPT !.pc = "ret", !.ret = NO_ERROR]
          /\ UNCHANGED aborted
     ELSE \/ /\ Abort("push_request_regardless_of_state: m_conn is nullptr")
             /\ UNCHANGED <<catchup_pending, connector>>
          \/ /\ connector' = [connector EXCEPT !.pc = "ret", !.ret = NO_ERROR]
             /\ UNCHANGED <<aborted, catchup_pending>>
  /\ UNCHANGED <<ndebug, m_state, m_conn, incoming, sender, m_state_mtx, m_conn_mtx,
                 m_disconn_future, tasks, m_prior_sender_sink_hook_func, spawned, disc_msg_sent,
                 tsvars, rmc, requester, shutdown>>

\* disconnect_async whose guard lets a DISCONNECTING handler through
disconnect_async_AlsoInDisconnecting(h, with_disc_msg) ==
  /\ m_state_mtx[h] = "free"
  /\ IF m_state[h] = "IDLE"
     THEN UNCHANGED <<m_state, tasks, m_disconn_future, m_state_mtx, spawned>>
     ELSE /\ m_state' = [m_state EXCEPT ![h] = "DISCONNECTING"]
          /\ tasks' = [tasks EXCEPT ![h] =
                         (IF FutureBusy(h) THEN @ ELSE <<>>)
                           \o <<[pc |-> "on_disconnecting", with_disc_msg |-> with_disc_msg,
                                 from |-> m_state[h]]>>]
          /\ m_disconn_future' = [m_disconn_future EXCEPT ![h] = "valid"]
          /\ m_state_mtx' = [m_state_mtx EXCEPT ![h] =
                               IF FutureBusy(h) THEN "disconnect_async" ELSE "free"]
          /\ spawned' = [spawned EXCEPT ![h] = @ + 1]

\* ------------------------------------------ connection_handler::disconnect_async
\* tran_server.cpp 568-581: under m_state_mtx: nothing when IDLE or DISCONNECTING; else
\* m_state = DISCONNECTING and m_disconn_future = std::async (teardown).  Assigning to a
\* future whose std::async task has not finished waits for that task; the caller holds
\* m_state_mtx, which that task needs to finish, so the caller then stays in the
\* assignment with the lock held ("disconnect_async").
disconnect_async(h, with_disc_msg) ==
  /\ m_state_mtx[h] = "free"
  /\ IF m_state[h] \in {"IDLE", "DISCONNECTING"}
     THEN UNCHANGED <<m_state, tasks, m_disconn_future, m_state_mtx, spawned>>
     ELSE /\ m_state' = [m_state EXCEPT ![h] = "DISCONNECTING"]
          /\ tasks' = [tasks EXCEPT ![h] =
                         (IF FutureBusy(h) THEN @ ELSE <<>>)
                           \o <<[pc |-> "on_disconnecting", with_disc_msg |-> with_disc_msg,
                                 from |-> m_state[h]]>>]
          /\ m_disconn_future' = [m_disconn_future EXCEPT ![h] = "valid"]
          /\ m_state_mtx' = [m_state_mtx EXCEPT ![h] =
                               IF FutureBusy(h) THEN "disconnect_async" ELSE "free"]
          /\ spawned' = [spawned EXCEPT ![h] = @ + 1]

\* the call of disconnect_async does not return (see above)
DisconnectAsyncBlocks(h) == m_state[h] \in {"CONNECTING", "CONNECTED"} /\ FutureBusy(h)

\* ------------------------------------------------------------ the teardown task
SetTask(h, i, pc) == tasks' = [tasks EXCEPT ![h][i].pc = pc]

\* tran_server.cpp 583 and active_tran_server.cpp 286-294: on_disconnecting removes the
\* prior sender sink when one is registered.
TaskOnDisconnecting(h, i) ==
  /\ i \in DOMAIN tasks[h] /\ tasks[h][i].pc = "on_disconnecting"
  /\ m_prior_sender_sink_hook_func' = [m_prior_sender_sink_hook_func EXCEPT ![h] = FALSE]
  /\ SetTask(h, i, "stop_incoming")
  /\ UNCHANGED <<ndebug, aborted, m_state, m_conn, incoming, sender, m_state_mtx, m_conn_mtx,
                 m_disconn_future, catchup_pending, spawned, disc_msg_sent, tsvars, thvars>>

\* tran_server.cpp 593: m_conn->stop_incoming_communication_thread (), outside the locks:
\* the incoming thread ends (it is joined, so it must not be inside a request handler)
\* and the threads waiting for a response are woken.
TaskStopIncoming(h, i) ==
  /\ i \in DOMAIN tasks[h] /\ tasks[h][i].pc = "stop_incoming"
  /\ incoming[h] # "in_handler"
  /\ IF m_conn[h] = "null"
     THEN /\ Abort("teardown: m_conn is nullptr")
          /\ UNCHANGED <<incoming, tasks>>
     ELSE /\ incoming' = [incoming EXCEPT ![h] = "stopped"]
          /\ SetTask(h, i, "lock_state")
          /\ UNCHANGED aborted
  /\ UNCHANGED <<ndebug, m_state, m_conn, sender, m_state_mtx, m_conn_mtx, m_disconn_future,
                 m_prior_sender_sink_hook_func, catchup_pending, spawned, disc_msg_sent,
                 tsvars, thvars>>

\* tran_server.cpp 595: lock m_state_mtx exclusively
TaskLockState(h, i) ==
  /\ i \in DOMAIN tasks[h] /\ tasks[h][i].pc = "lock_state"
  /\ m_state_mtx[h] = "free"
  /\ m_state_mtx' = [m_state_mtx EXCEPT ![h] = "teardown"]
  /\ SetTask(h, i, "lock_conn")
  /\ UNCHANGED <<ndebug, aborted, m_state, m_conn, incoming, sender, m_conn_mtx,
                 m_disconn_future, m_prior_sender_sink_hook_func, catchup_pending, spawned,
                 disc_msg_sent, tsvars, thvars>>

\* the teardown task that pushes SEND_DISCONNECT_MSG whatever with_disc_msg is
TaskLockConn_AlwaysSends(h, i) ==
  /\ i \in DOMAIN tasks[h] /\ tasks[h][i].pc = "lock_conn"
  /\ CanLockExclusive(m_conn_mtx[h])
  /\ m_conn_mtx' = [m_conn_mtx EXCEPT ![h].excl = {"teardown"}]
  /\ IF AssertFails(m_state[h] = "DISCONNECTING")
     THEN /\ Abort("teardown: assert (m_state == state::DISCONNECTING)")
          /\ UNCHANGED <<tasks, disc_msg_sent>>
     ELSE /\ disc_msg_sent' = [disc_msg_sent EXCEPT ![h] = @ + 1]
          /\ SetTask(h, i, "reset_conn")
          /\ UNCHANGED aborted
  /\ UNCHANGED <<ndebug, m_state, m_conn, incoming, sender, m_state_mtx, m_disconn_future,
                 m_prior_sender_sink_hook_func, catchup_pending, spawned, tsvars, thvars>>

\* tran_server.cpp 596-608: lock m_conn_mtx exclusively, assert (m_state == DISCONNECTING),
\* push SEND_DISCONNECT_MSG when with_disc_msg.
TaskLockConn(h, i) ==
  /\ i \in DOMAIN tasks[h] /\ tasks[h][i].pc = "lock_conn"
  /\ CanLockExclusive(m_conn_mtx[h])
  /\ m_conn_mtx' = [m_conn_mtx EXCEPT ![h].excl = {"teardown"}]
  /\ IF AssertFails(m_state[h] = "DISCONNECTING")
     THEN /\ Abort("teardown: assert (m_state == state::DISCONNECTING)")
          /\ UNCHANGED <<tasks, disc_msg_sent>>
     ELSE /\ disc_msg_sent' = [disc_msg_sent EXCEPT ![h] =
                                 IF tasks[h][i].with_disc_msg THEN @ + 1 ELSE @]
          /\ SetTask(h, i, "reset_conn")
          /\ UNCHANGED aborted
  /\ UNCHANGED <<ndebug, m_state, m_conn, incoming, sender, m_state_mtx, m_disconn_future,
                 m_prior_sender_sink_hook_func, catchup_pending, spawned, tsvars, thvars>>

\* tran_server.cpp 610-614: m_conn.reset (nullptr) joins the conn's threads, so it ends
\* only when the sending thread is not inside send_error_handler; then m_state = IDLE,
\* both locks are released and the task is finished.
TaskResetConn(h, i) ==
  /\ i \in DOMAIN tasks[h] /\ tasks[h][i].pc = "reset_conn"
  /\ sender[h] # "in_handler"
  /\ m_conn' = [m_conn EXCEPT ![h] = "null"]
  /\ incoming' = [incoming EXCEPT ![h] = "none"]
  /\ sender' = [sender EXCEPT ![h] = "none"]
  /\ catchup_pending' = [catchup_pending EXCEPT ![h] = FALSE]
  /\ m_state' = [m_state EXCEPT ![h] = "IDLE"]
  /\ m_state_mtx' = [m_state_mtx EXCEPT ![h] = "free"]
  /\ m_conn_mtx' = [m_conn_mtx EXCEPT ![h].excl = {}]
  /\ SetTask(h, i, "done")
  /\ UNCHANGED <<ndebug, aborted, m_disconn_future, m_prior_sender_sink_hook_func, spawned,
                 disc_msg_sent, tsvars, thvars>>

\* ------------------------------------------ the conn's threads and their callbacks
\* tran_server.cpp 532-546: the sending thread finds the socket closed and enters
\* send_error_handler (CONNECTION_CLOSED).
SendErrorDetected(h) ==
  /\ m_conn[h] = "set" /\ sender[h] = "idle"
  /\ sender' = [sender EXCEPT ![h] = "in_handler"]
  /\ UNCHANGED <<ndebug, aborted, m_state, m_conn, incoming, m_state_mtx, m_conn_mtx,
                 m_disconn_future, tasks, m_prior_sender_sink_hook_func, catchup_pending,
                 spawned, disc_msg_sent, tsvars, thvars>>

\* tran_server.cpp 544-545: send_error_handler calls disconnect_async (false)
SendErrorHandler(h) ==
  /\ sender[h] = "in_handler"
  /\ disconnect_async(h, FALSE)
  /\ sender' = [sender EXCEPT ![h] = IF DisconnectAsyncBlocks(h) THEN "in_handler" ELSE "idle"]
  /\ UNCHANGED <<ndebug, aborted, m_conn, incoming, m_conn_mtx,
                 m_prior_sender_sink_hook_func, catchup_pending, disc_msg_sent, tsvars, thvars>>

\* tran_server.cpp 554-561: the incoming thread reports a receive error:
\* recv_error_handler calls disconnect_async (false)
RecvErrorHandler(h) ==
  /\ incoming[h] = "running"
  /\ disconnect_async(h, FALSE)
  /\ incoming' = [incoming EXCEPT ![h] = IF DisconnectAsyncBlocks(h) THEN "in_handler" ELSE @]
  /\ UNCHANGED <<ndebug, aborted, m_conn, sender, m_conn_mtx,
                 m_prior_sender_sink_hook_func, catchup_pending, disc_msg_sent, tsvars, thvars>>

\* tran_server.cpp 645-650: SEND_DISCONNECT_REQUEST_MSG: disconnect_async (true)
receive_disconnect_request(h) ==
  /\ incoming[h] = "running"
  /\ disconnect_async(h, TRUE)
  /\ incoming' = [incoming EXCEPT ![h] = IF DisconnectAsyncBlocks(h) THEN "in_handler" ELSE @]
  /\ UNCHANGED <<ndebug, aborted, m_conn, sender, m_conn_mtx,
                 m_prior_sender_sink_hook_func, catchup_pending, disc_msg_sent, tsvars, thvars>>

\* active_tran_server.cpp 216-225: SEND_CATCHUP_COMPLETE: under m_state_mtx,
\* assert (m_state == CONNECTING); m_state = CONNECTED (whatever m_state was, when the
\* assertion is compiled out).
receive_catchup_complete(h) ==
  /\ incoming[h] = "running" /\ catchup_pending[h]
  /\ m_state_mtx[h] = "free"
  /\ catchup_pending' = [catchup_pending EXCEPT ![h] = FALSE]
  /\ IF AssertFails(m_state[h] = "CONNECTING")
     THEN /\ Abort("receive_catchup_complete: assert (m_state == state::CONNECTING)")
          /\ UNCHANGED <<m_state, spawned>>
     ELSE /\ m_state' = [m_state EXCEPT ![h] = "CONNECTED"]
          /\ spawned' = [spawned EXCEPT ![h] = 0]
          /\ UNCHANGED aborted
  /\ UNCHANGED <<ndebug, m_conn, incoming, sender, m_state_mtx, m_conn_mtx, m_disconn_future,
                 tasks, m_prior_sender_sink_hook_func, disc_msg_sent, tsvars, thvars>>


\* --------------------------------------------- tran_server::reset_main_connection
\* the caller t enters reset_main_connection
CallReset(t) == rmc' = [rmc EXCEPT ![t] = [NoRmc EXCEPT !.pc = "lock"]]

\* tran_server.cpp 452: lock m_main_conn_mtx exclusively
RmcLock(t) ==
  /\ rmc[t].pc = "lock"
  /\ CanLockExclusive(m_main_conn_mtx)
  /\ m_main_conn_mtx' = [m_main_conn_mtx EXCEPT !.excl = {t}]
  /\ rmc' = [rmc EXCEPT ![t].pc = "scan", ![t].idx = 1]
  /\ UNCHANGED <<ndebug, aborted, hvars, m_main_conn, m_terminate, connector, requester, shutdown>>

\* reset_main_connection that makes the last handler the main connection
RmcScan_PicksLast(t) ==
  /\ rmc[t].pc = "scan"
  /\ LET h == rmc[t].idx
         is_connected == m_state[h] = "CONNECTED"
     IN /\ m_state_mtx[h] = "free"
        /\ IF is_connected
           THEN /\ m_main_conn' = NumHandlers
                /\ m_main_conn_mtx' = [m_main_conn_mtx EXCEPT !.excl = {}]
                /\ rmc' = [rmc EXCEPT ![t].pc = "done", ![t].result = NO_ERROR,
                                      ![t].seen = Append(@, is_connected),
                                      ![t].was = m_main_conn]
           ELSE IF h < NumHandlers
           THEN /\ rmc' = [rmc EXCEPT ![t].idx = h + 1, ![t].seen = Append(@, is_connected)]
                /\ UNCHANGED <<m_main_conn, m_main_conn_mtx>>
           ELSE /\ m_main_conn_mtx' = [m_main_conn_mtx EXCEPT !.excl = {}]
                /\ rmc' = [rmc EXCEPT ![t].pc = "done",
                                      ![t].result = ER_CONN_NO_PAGE_SERVER_AVAILABLE,
                                      ![t].seen = Append(@, is_connected),
                                      ![t].was = m_main_conn]
                /\ UNCHANGED m_main_conn
  /\ UNCHANGED <<ndebug, aborted, hvars, m_terminate, connector, requester, shutdown>>

\* reset_main_connection that clears m_main_conn when no handler is connected
RmcScan_NullsMain(t) ==
  /\ rmc[t].pc = "scan"
  /\ LET h == rmc[t].idx
         is_connected == m_state[h] = "CONNECTED"
     IN /\ m_state_mtx[h] = "free"
        /\ IF is_connected
           THEN /\ m_main_conn' = h
                /\ m_main_conn_mtx' = [m_main_conn_mtx EXCEPT !.excl = {}]
                /\ rmc' = [rmc EXCEPT ![t].pc = "done", ![t].result = NO_ERROR,
                                      ![t].seen = Append(@, is_connected),
                                      ![t].was = m_main_conn]
           ELSE IF h < NumHandlers
           THEN /\ rmc' = [rmc EXCEPT ![t].idx = h + 1, ![t].seen = Append(@, is_connected)]
                /\ UNCHANGED <<m_main_conn, m_main_conn_mtx>>
           ELSE /\ m_main_conn_mtx' = [m_main_conn_mtx EXCEPT !.excl = {}]
                /\ rmc' = [rmc EXCEPT ![t].pc = "done",
                                      ![t].result = ER_CONN_NO_PAGE_SERVER_AVAILABLE,
                                      ![t].seen = Append(@, is_connected),
                                      ![t].was = m_main_conn]
                /\ m_main_conn' = 0
  /\ UNCHANGED <<ndebug, aborted, hvars, m_terminate, connector, requester, shutdown>>

\* tran_server.cpp 455-475: std::find_if visits the handlers in the order of the
\* container and stops at the first whose is_connected () (m_state_mtx shared) is true:
\* that one becomes m_main_conn.  At the end of the container the function returns
\* ER_CONN_NO_PAGE_SERVER_AVAILABLE and m_main_conn keeps its value.
RmcScan(t) ==
  /\ rmc[t].pc = "scan"
  /\ LET h == rmc[t].idx
         is_connected == m_state[h] = "CONNECTED"
     IN /\ m_state_mtx[h] = "free"
        /\ IF is_connected
           THEN /\ m_main_conn' = h
                /\ m_main_conn_mtx' = [m_main_conn_mtx EXCEPT !.excl = {}]
                /\ rmc' = [rmc EXCEPT ![t].pc = "done", ![t].result = NO_ERROR,
                                      ![t].seen = Append(@, is_connected),
                                      ![t].was = m_main_conn]
           ELSE IF h < NumHandlers
           THEN /\ rmc' = [rmc EXCEPT ![t].idx = h + 1, ![t].seen = Append(@, is_connected)]
                /\ UNCHANGED <<m_main_conn, m_main_conn_mtx>>
           ELSE /\ m_main_conn_mtx' = [m_main_conn_mtx EXCEPT !.excl = {}]
                /\ rmc' = [rmc EXCEPT ![t].pc = "done",
                                      ![t].result = ER_CONN_NO_PAGE_SERVER_AVAILABLE,
                                      ![t].seen = Append(@, is_connected),
                                      ![t].was = m_main_conn]
                /\ UNCHANGED m_main_conn
  /\ UNCHANGED <<ndebug, aborted, hvars, m_terminate, connector, requester, shutdown>>

\* ------------------------------------------------------------- tran_server::boot
\* tran_server.cpp 305-316 (init_page_server_hosts): connect () returned; next handler,
\* and after the last one prepare_connections (nothing) and the first
\* reset_main_connection of boot (tran_server.cpp 128-145).
BootAfterConnect ==
  /\ connector.phase = "boot" /\ connector.pc = "ret"
  /\ IF connector.idx < NumHandlers
     THEN /\ connector' = [connector EXCEPT !.pc = "connect", !.idx = @ + 1]
          /\ UNCHANGED rmc
     ELSE /\ connector' = [connector EXCEPT !.pc = "reset"]
          /\ CallReset(0)
  /\ UNCHANGED <<ndebug, aborted, hvars, tsvars, requester, shutdown>>

\* tran_server.cpp 143-176: reset_main_connection returned: on NO_ERROR leave the loop
\* and m_ps_connector.start () (tran_server.cpp 744-760: m_terminate.store (false), the
\* daemon is created); otherwise sleep 30 ms and call it again.
BootAfterReset ==
  /\ connector.phase = "boot" /\ connector.pc = "reset"
  /\ rmc[0].pc = "done"
  /\ IF rmc[0].result = NO_ERROR
     THEN /\ m_terminate' = FALSE
          /\ connector' = [connector EXCEPT !.phase = "daemon", !.pc = "sleep"]
          /\ rmc' = [rmc EXCEPT ![0] = NoRmc]
     ELSE /\ CallReset(0)
          /\ UNCHANGED <<m_terminate, connector>>
  /\ UNCHANGED <<ndebug, aborted, hvars, m_main_conn, m_main_conn_mtx, requester, shutdown>>

\* tran_server.cpp 161-167: more than 30 seconds in the loop: assert (false), and in an
\* NDEBUG build boot returns the error.
BootTimeout ==
  /\ connector.phase = "boot" /\ connector.pc = "reset"
  /\ rmc[0].pc = "done" /\ rmc[0].result # NO_ERROR
  /\ IF AssertFails(FALSE)
     THEN Abort("boot: assert (false)") /\ UNCHANGED <<connector, rmc>>
     ELSE /\ connector' = [connector EXCEPT !.phase = "boot_failed", !.pc = "none"]
          /\ rmc' = [rmc EXCEPT ![0].pc = "none"]
          /\ UNCHANGED aborted
  /\ UNCHANGED <<ndebug, hvars, tsvars, requester, shutdown>>

\* ---------------------------------------- ps_connector::try_connect_to_all_ps
\* tran_server.cpp 772-775: the daemon runs the task again (every 5 seconds)
TickBegin ==
  /\ connector.phase = "daemon" /\ connector.pc = "sleep"
  /\ ~m_terminate
  /\ connector' = [connector EXCEPT !.pc = "is_idle", !.idx = 1, !.newly_connected = FALSE]
  /\ UNCHANGED <<ndebug, aborted, hvars, tsvars, rmc, requester, shutdown>>

\* the tick that calls connect () without looking at is_idle ()
TickIsIdle_ConnectsAnyway(h) ==
  /\ connector.phase = "daemon" /\ connector.pc = "is_idle" /\ connector.idx = h
  /\ m_state_mtx[h] = "free"
  /\ connector' = [connector EXCEPT !.pc = "connect"]
  /\ UNCHANGED <<ndebug, aborted, hvars, tsvars, rmc, requester, shutdown>>

\* tran_server.cpp 777 and 719-724: conn->is_idle () under m_state_mtx shared
TickIsIdle(h) ==
  /\ connector.phase = "daemon" /\ connector.pc = "is_idle" /\ connector.idx = h
  /\ m_state_mtx[h] = "free"
  /\ connector' = [connector EXCEPT !.pc = IF m_state[h] = "IDLE" THEN "connect"
                                                                 ELSE "check_terminate"]
  /\ UNCHANGED <<ndebug, aborted, hvars, tsvars, rmc, requester, shutdown>>

\* tran_server.cpp 783-786: connect () returned
TickAfterConnect ==
  /\ connector.phase = "daemon" /\ connector.pc = "ret"
  /\ connector' = [connector EXCEPT !.pc = "check_terminate",
                                    !.newly_connected = @ \/ connector.ret = NO_ERROR]
  /\ UNCHANGED <<ndebug, aborted, hvars, tsvars, rmc, requester, shutdown>>

\* tran_server.cpp 789-803: return when m_terminate; else the next handler; after the
\* last one reset_main_connection when a handler was newly connected.
TickCheckTerminate ==
  /\ connector.phase = "daemon" /\ connector.pc = "check_terminate"
  /\ IF m_terminate
     THEN connector' = [connector EXCEPT !.pc = "sleep"] /\ UNCHANGED rmc
     ELSE IF connector.idx < NumHandlers
     THEN connector' = [connector EXCEPT !.pc = "is_idle", !.idx = @ + 1] /\ UNCHANGED rmc
     ELSE IF connector.newly_connected
     THEN connector' = [connector EXCEPT !.pc = "reset"] /\ CallReset(0)
     ELSE connector' = [connector EXCEPT !.pc = "sleep"] /\ UNCHANGED rmc
  /\ UNCHANGED <<ndebug, aborted, hvars, tsvars, requester, shutdown>>

\* tran_server.cpp 799-802: if (reset_main_connection () != NO_ERROR) assert (false)
TickAfterReset ==
  /\ connector.phase = "daemon" /\ connector.pc = "reset"
  /\ rmc[0].pc = "done"
  /\ IF AssertFails(rmc[0].result = NO_ERROR)
     THEN Abort("try_connect_to_all_ps: assert (false)") /\ UNCHANGED <<connector, rmc>>
     ELSE /\ connector' = [connector EXCEPT !.pc = "sleep"]
          /\ rmc' = [rmc EXCEPT ![0] = NoRmc]
          /\ UNCHANGED aborted
  /\ UNCHANGED <<ndebug, hvars, tsvars, requester, shutdown>>


\* ------------------------------ tran_server::push_request / tran_server::send_receive
\* tran_server.cpp 196 and 222: the call begins by locking m_main_conn_mtx shared.
\* Requests are made once boot has set the main connection.
ReqCall(r, op) ==
  /\ requester[r].pc = "idle"
  /\ connector.phase = "daemon" /\ shutdown.pc = "none"
  /\ CanLockShared(m_main_conn_mtx)
  /\ m_main_conn_mtx' = [m_main_conn_mtx EXCEPT !.shared = @ \cup {r}]
  /\ requester' = [requester EXCEPT ![r] = [IdleRequester EXCEPT !.pc = "attempt", !.op = op]]
  /\ UNCHANGED <<ndebug, aborted, hvars, m_main_conn, m_terminate, connector, rmc, shutdown>>

\* send_receive that releases m_state_mtx without having locked m_conn_mtx
ReqAttempt_NoConnLock(r) ==
  /\ requester[r].pc = "attempt"
  /\ LET h == m_main_conn
     IN /\ m_state_mtx[h] = "free"
        /\ IF m_state[h] # "CONNECTED"
           THEN requester' = [requester EXCEPT ![r].pc = "check", ![r].rejected = TRUE,
                                ![r].err_code = ER_CONN_PAGE_SERVER_CANNOT_BE_REACHED]
           ELSE IF requester[r].op = "push_request"
           THEN requester' = [requester EXCEPT ![r].pc = "check",
                                ![r].err_code = NO_ERROR, ![r].delivered = h]
           ELSE requester' = [requester EXCEPT ![r].pc = "send_recv", ![r].on = h]
  /\ UNCHANGED <<ndebug, aborted, hvars, tsvars, connector, rmc, shutdown>>

\* tran_server.cpp 199 / 225 with connection_handler::push_request (652-670) and the
\* start of connection_handler::send_receive (679-693): under m_state_mtx shared,
\* m_state != CONNECTED returns ER_CONN_PAGE_SERVER_CANNOT_BE_REACHED; else m_conn_mtx is
\* locked shared and m_state_mtx released.  push_request hands the request to m_conn and
\* returns NO_ERROR; send_receive starts the round trip, m_conn_mtx still held shared.
ReqAttempt(r) ==
  /\ requester[r].pc = "attempt"
  /\ LET h == m_main_conn
     IN /\ m_state_mtx[h] = "free"
        /\ IF m_state[h] # "CONNECTED"
           THEN /\ requester' = [requester EXCEPT ![r].pc = "check", ![r].rejected = TRUE,
                                   ![r].err_code = ER_CONN_PAGE_SERVER_CANNOT_BE_REACHED]
                /\ UNCHANGED m_conn_mtx
           ELSE /\ CanLockShared(m_conn_mtx[h])
                /\ IF requester[r].op = "push_request"
                   THEN /\ requester' = [requester EXCEPT ![r].pc = "check",
                                           ![r].err_code = NO_ERROR, ![r].delivered = h]
                        /\ UNCHANGED m_conn_mtx
                   ELSE /\ requester' = [requester EXCEPT ![r].pc = "send_recv", ![r].on = h]
                        /\ m_conn_mtx' = [m_conn_mtx EXCEPT ![h].shared = @ \cup {r}]
  /\ UNCHANGED <<ndebug, aborted, m_state, m_conn, incoming, sender, m_state_mtx,
                 m_disconn_future, tasks, m_prior_sender_sink_hook_func, catchup_pending,
                 spawned, disc_msg_sent, tsvars, connector, rmc, shutdown>>

\* send_receive that returns with m_conn_mtx still locked shared
EndSendRecv_KeepsConnLock(r, code, delivered) ==
  /\ requester' = [requester EXCEPT ![r].pc = "check", ![r].err_code = code,
                                    ![r].delivered = delivered]
  /\ UNCHANGED <<ndebug, aborted, hvars, tsvars, connector, rmc, shutdown>>

\* the round trip of send_receive ends and m_conn_mtx is released
EndSendRecv(r, code, delivered) ==
  /\ requester' = [requester EXCEPT ![r].pc = "check", ![r].err_code = code, ![r].on = 0,
                                    ![r].delivered = delivered]
  /\ m_conn_mtx' = [m_conn_mtx EXCEPT ![requester[r].on].shared = @ \ {r}]
  /\ UNCHANGED <<ndebug, aborted, m_state, m_conn, incoming, sender, m_state_mtx,
                 m_disconn_future, tasks, m_prior_sender_sink_hook_func, catchup_pending,
                 spawned, disc_msg_sent, tsvars, connector, rmc, shutdown>>

\* tran_server.cpp 695-702: m_conn->send_recv returns NO_ERRORS: the response arrived,
\* which takes the incoming thread.
SendRecvResponse(r) ==
  /\ requester[r].pc = "send_recv"
  /\ incoming[requester[r].on] = "running"
  /\ EndSendRecv(r, NO_ERROR, requester[r].on)

\* tran_server.cpp 695-700: the waiter was woken by stop_incoming_communication_thread:
\* send_recv returns an error, mapped to ER_CONN_PAGE_SERVER_CANNOT_BE_REACHED.
SendRecvWoken(r) ==
  /\ requester[r].pc = "send_recv"
  /\ incoming[requester[r].on] = "stopped"
  /\ EndSendRecv(r, ER_CONN_PAGE_SERVER_CANNOT_BE_REACHED, 0)

\* tran_server.cpp 695-700: send_recv fails on the channel while the handler is as it was
SendRecvChannelError(r) ==
  /\ requester[r].pc = "send_recv"
  /\ incoming[requester[r].on] = "running"
  /\ EndSendRecv(r, ER_CONN_PAGE_SERVER_CANNOT_BE_REACHED, 0)

\* the retry loop without the is_connected () test: every failure ends the call
ReqCheck_NoIsConnected(r) ==
  /\ requester[r].pc = "check"
  /\ IF requester[r].err_code = NO_ERROR
     THEN /\ requester' = [requester EXCEPT ![r].pc = "done"]
          /\ UNCHANGED rmc
     ELSE /\ requester' = [requester EXCEPT ![r].pc = "done"]
          /\ UNCHANGED rmc
  /\ m_main_conn_mtx' = [m_main_conn_mtx EXCEPT !.shared = @ \ {r}]
  /\ UNCHANGED <<ndebug, aborted, hvars, m_main_conn, m_terminate, connector, shutdown>>

\* tran_server.cpp 200-214 / 226-240: err_code != NO_ERROR && !m_main_conn->is_connected ():
\* unlock m_main_conn_mtx and enter reset_main_connection; otherwise leave the loop
\* (send_receive returns err_code).
ReqCheck(r) ==
  /\ requester[r].pc = "check"
  /\ IF requester[r].err_code = NO_ERROR
     THEN /\ requester' = [requester EXCEPT ![r].pc = "done"]
          /\ UNCHANGED rmc
     ELSE /\ m_state_mtx[m_main_conn] = "free"
          /\ IF m_state[m_main_conn] = "CONNECTED"
             THEN /\ requester' = [requester EXCEPT ![r].pc = "done", ![r].saw_connected = TRUE]
                  /\ UNCHANGED rmc
             ELSE /\ requester' = [requester EXCEPT ![r].pc = "reset", ![r].rejected = FALSE,
                                                    ![r].saw_connected = FALSE]
                  /\ CallReset(r)
  /\ m_main_conn_mtx' = [m_main_conn_mtx EXCEPT !.shared = @ \ {r}]
  /\ UNCHANGED <<ndebug, aborted, hvars, m_main_conn, m_terminate, connector, shutdown>>

\* tran_server.cpp 204-209 / 230-235: reset_main_connection returned:
\* ER_CONN_NO_PAGE_SERVER_AVAILABLE ends the call (send_receive returns it, push_request
\* just returns); otherwise lock m_main_conn_mtx shared again and retry.
ReqAfterReset(r) ==
  /\ requester[r].pc = "reset"
  /\ rmc[r].pc = "done"
  /\ IF rmc[r].result = ER_CONN_NO_PAGE_SERVER_AVAILABLE
     THEN /\ requester' = [requester EXCEPT ![r].pc = "done", ![r].err_code = rmc[r].result]
          /\ UNCHANGED m_main_conn_mtx
     ELSE /\ CanLockShared(m_main_conn_mtx)
          /\ m_main_conn_mtx' = [m_main_conn_mtx EXCEPT !.shared = @ \cup {r}]
          /\ requester' = [requester EXCEPT ![r].pc = "attempt", ![r].err_code = rmc[r].result]
  /\ rmc' = [rmc EXCEPT ![r].pc = "none"]
  /\ UNCHANGED <<ndebug, aborted, hvars, m_main_conn, m_terminate, connector, shutdown>>

\* the call has returned to its caller
ReqReturn(r) ==
  /\ requester[r].pc = "done"
  /\ requester' = [requester EXCEPT ![r] = IdleRequester]
  /\ rmc' = [rmc EXCEPT ![r] = NoRmc]
  /\ UNCHANGED <<ndebug, aborted, hvars, tsvars, connector, shutdown>>

\* ------------------------------------- tran_server::disconnect_all_page_servers
\* tran_server.cpp 433 and 762-769: m_ps_connector.terminate (): m_terminate.exchange (true)
\* was false, so the daemon is destroyed, which waits for its task to return.
\* called_in is history: the state of every handler when the function was called.
ShutdownTerminate ==
  /\ shutdown.pc = "none"
  /\ connector.phase = "daemon"
  /\ m_terminate' = TRUE
  /\ shutdown' = [shutdown EXCEPT !.pc = "destroy_daemon", !.called_in = m_state]
  /\ UNCHANGED <<ndebug, aborted, hvars, m_main_conn, m_main_conn_mtx, connector, rmc, requester>>

ShutdownDestroyDaemon ==
  /\ shutdown.pc = "destroy_daemon"
  /\ connector.pc = "sleep"
  /\ connector' = [connector EXCEPT !.phase = "destroyed"]
  /\ shutdown' = [shutdown EXCEPT !.pc = "disconnect", !.idx = 1]
  /\ UNCHANGED <<ndebug, aborted, hvars, tsvars, rmc, requester>>

\* tran_server.cpp 435-439: conn->disconnect_async (true) for every handler
ShutdownDisconnect(h) ==
  /\ shutdown.pc = "disconnect" /\ shutdown.idx = h
  /\ disconnect_async(h, TRUE)
  /\ shutdown' = IF DisconnectAsyncBlocks(h) THEN shutdown
                 ELSE IF h < NumHandlers THEN [shutdown EXCEPT !.idx = h + 1]
                 ELSE [shutdown EXCEPT !.pc = "wait", !.idx = 1]
  /\ UNCHANGED <<ndebug, aborted, m_conn, incoming, sender, m_conn_mtx,
                 m_prior_sender_sink_hook_func, catchup_pending, disc_msg_sent,
                 tsvars, connector, rmc, requester>>

\* wait_async_disconnection that does not join the future
wait_async_disconnection_NoJoin(h) ==
  /\ m_state_mtx[h] = "free"
  /\ m_disconn_future' = [m_disconn_future EXCEPT ![h] = "invalid"]
  /\ IF AssertFails(m_state[h] = "IDLE")
     THEN Abort("wait_async_disconnection: assert (m_state == state::IDLE)")
     ELSE UNCHANGED aborted

\* tran_server.cpp 441-444 and 617-628: wait_async_disconnection for every handler:
\* m_disconn_future.get () when valid, which returns when the task has finished; then,
\* not in an NDEBUG build, assert (m_state == IDLE) under m_state_mtx shared.
wait_async_disconnection(h) ==
  /\ m_disconn_future[h] = "valid" => ~FutureBusy(h)
  /\ m_state_mtx[h] = "free"
  /\ m_disconn_future' = [m_disconn_future EXCEPT ![h] = "invalid"]
  /\ IF AssertFails(m_state[h] = "IDLE")
     THEN Abort("wait_async_disconnection: assert (m_state == state::IDLE)")
     ELSE UNCHANGED aborted

ShutdownWait(h) ==
  /\ shutdown.pc = "wait" /\ shutdown.idx = h
  /\ wait_async_disconnection(h)
  /\ shutdown' = IF h < NumHandlers THEN [shutdown EXCEPT !.idx = h + 1]
                 ELSE [shutdown EXCEPT !.pc = "done"]
  /\ UNCHANGED <<ndebug, m_state, m_conn, incoming, sender, m_state_mtx, m_conn_mtx, tasks,
                 m_prior_sender_sink_hook_func, catchup_pending, spawned, disc_msg_sent,
                 tsvars, connector, rmc, requester>>

\* ------------------------------------------------------------------ specification
\* abort () ends every thread
Alive == aborted = "none"

\* a step of a thread of the living process
Step(A) == Alive /\ A /\ UNCHANGED <<recv_errors, m_saved_lsa, consensus, flvars, boot, adh, reg, prior_lists, psc>>

\* a step that is counted against MaxRecvErrors
CountedStep(A) ==
  /\ Alive
  /\ recv_errors < MaxRecvErrors
  /\ A
  /\ recv_errors' = recv_errors + 1
  /\ UNCHANGED <<m_saved_lsa, consensus, flvars, boot, adh, reg, prior_lists, psc>>

Next ==
  \/ \E h \in Handlers : Step(ConnectBegin(h))
  \/ \E h \in Handlers : Step(ConnectFail(h))
  \/ \E h \in Handlers : Step(ConnectSucceed(h))
  \/ \E h \in Handlers : Step(TransitionAddSink(h))
  \/ \E h \in Handlers : Step(TransitionSendStartCatchUp(h))
  \/ \E h \in Handlers, i \in 1..2 : Step(TaskOnDisconnecting(h, i))
  \/ \E h \in Handlers, i \in 1..2 : Step(TaskStopIncoming(h, i))
  \/ \E h \in Handlers, i \in 1..2 : Step(TaskLockState(h, i))
  \/ \E h \in Handlers, i \in 1..2 : Step(TaskLockConn(h, i))
  \/ \E h \in Handlers, i \in 1..2 : Step(TaskResetConn(h, i))
  \/ \E h \in Handlers : Step(SendErrorDetected(h))
  \/ \E h \in Handlers : Step(SendErrorHandler(h))
  \/ \E h \in Handlers : Step(RecvErrorHandler(h))
  \/ \E h \in Handlers : Step(receive_disconnect_request(h))
  \/ \E h \in Handlers : Step(receive_catchup_complete(h))
  \/ \E t \in Threads : Step(RmcLock(t))
  \/ \E t \in Threads : Step(RmcScan(t))
  \/ Step(BootAfterConnect)
  \/ Step(BootAfterReset)
  \/ Step(BootTimeout)
  \/ Step(TickBegin)
  \/ \E h \in Handlers : Step(TickIsIdle(h))
  \/ Step(TickAfterConnect)
  \/ Step(TickCheckTerminate)
  \/ Step(TickAfterReset)
  \/ \E r \in Requesters, op \in {"push_request", "send_receive"} : Step(ReqCall(r, op))
  \/ \E r \in Requesters : Step(ReqAttempt(r))
  \/ \E r \in Requesters : Step(SendRecvResponse(r))
  \/ \E r \in Requesters : Step(SendRecvWoken(r))
  \/ \E r \in Requesters : Step(SendRecvChannelError(r))
  \/ \E r \in Requesters : Step(ReqCheck(r))
  \/ \E r \in Requesters : Step(ReqAfterReset(r))
  \/ \E r \in Requesters : Step(ReqReturn(r))
  \/ Step(ShutdownTerminate)
  \/ Step(ShutdownDestroyDaemon)
  \/ \E h \in Handlers : Step(ShutdownDisconnect(h))
  \/ \E h \in Handlers : Step(ShutdownWait(h))

Spec == Init /\ [][Next]_vars

\* The main connection over several handlers.  The handlers leave CONNECTED through a
\* receive error of their conn; the send error callback, the disconnect request of the
\* page server and the shutdown are left to Spec.
InitTS == InitWith(MaxHandlers)

NextTS ==
  \/ \E h \in Handlers : Step(ConnectBegin(h))
  \/ \E h \in Handlers : Step(ConnectFail(h))
  \/ \E h \in Handlers : Step(ConnectSucceed(h))
  \/ \E h \in Handlers : Step(TransitionAddSink(h))
  \/ \E h \in Handlers : Step(TransitionSendStartCatchUp(h))
  \/ \E h \in Handlers, i \in 1..2 : Step(TaskOnDisconnecting(h, i))
  \/ \E h \in Handlers, i \in 1..2 : Step(TaskStopIncoming(h, i))
  \/ \E h \in Handlers, i \in 1..2 : Step(TaskLockState(h, i))
  \/ \E h \in Handlers, i \in 1..2 : Step(TaskLockConn(h, i))
  \/ \E h \in Handlers, i \in 1..2 : Step(TaskResetConn(h, i))
  \/ \E h \in Handlers : Step(receive_catchup_complete(h))
  \/ \E t \in Threads : Step(RmcLock(t))
  \/ \E t \in Threads : Step(RmcScan(t))
  \/ Step(BootAfterConnect)
  \/ Step(BootAfterReset)
  \/ Step(TickBegin)
  \/ \E h \in Handlers : Step(TickIsIdle(h))
  \/ Step(TickAfterConnect)
  \/ Step(TickCheckTerminate)
  \/ Step(TickAfterReset)
  \/ \E r \in Requesters, op \in {"push_request", "send_receive"} : Step(ReqCall(r, op))
  \/ \E r \in Requesters : Step(ReqAttempt(r))
  \/ \E r \in Requesters : Step(SendRecvResponse(r))
  \/ \E r \in Requesters : Step(SendRecvWoken(r))
  \/ \E r \in Requesters : Step(SendRecvChannelError(r))
  \/ \E r \in Requesters : Step(ReqCheck(r))
  \/ \E r \in Requesters : Step(ReqAfterReset(r))
  \/ \E r \in Requesters : Step(ReqReturn(r))
  \/ \E h \in Handlers : CountedStep(RecvErrorHandler(h))

SpecTS == InitTS /\ [][NextTS]_vars

\* ------------------------------------------------------ the prior sender's sink
\* active_tran_server.cpp 296-302 and tran_server.cpp 672-677: the prior sender calls the
\* hook of a registered sink with a message: prior_sender_sink_hook pushes
\* SEND_LOG_PRIOR_LIST regardless of the state, under m_conn_mtx shared and with no check
\* of m_conn.  With m_conn null the push dereferences a null pointer: the process
\* faults, or the message is lost.  remove_sink returns when no call of the hook is
\* under way, so that a call is one step.
prior_sender_sink_hook(h) ==
  /\ m_prior_sender_sink_hook_func[h]
  /\ prior_lists.n < MaxPriorLists
  /\ CanLockShared(m_conn_mtx[h])
  /\ prior_lists' = [n |-> prior_lists.n + 1, h |-> h]
  /\ IF push_request_regardless_of_state_ok(h)
     THEN UNCHANGED aborted
     ELSE \/ Abort("push_request_regardless_of_state: m_conn is nullptr")
          \/ UNCHANGED aborted
  /\ UNCHANGED <<ndebug, hvars, tsvars, thvars, psc>>

\* tran_server.cpp 36-43 and active_tran_server.cpp 173-176: ~tran_server, after
\* disconnect_all_page_servers has returned, destructs the handlers:
\* assert (m_prior_sender_sink_hook_func == nullptr) in each destructor
DestructHandlers ==
  /\ shutdown.pc = "done"
  /\ shutdown' = [shutdown EXCEPT !.pc = "destructed"]
  /\ IF AssertFails(\A h \in Handlers : ~m_prior_sender_sink_hook_func[h])
     THEN Abort("~connection_handler: assert (m_prior_sender_sink_hook_func == nullptr)")
     ELSE UNCHANGED aborted
  /\ UNCHANGED <<ndebug, hvars, tsvars, connector, rmc, requester>>

\* a step of the prior sender
SinkStep(A) ==
  Alive /\ A /\ UNCHANGED <<recv_errors, m_saved_lsa, consensus, flvars, boot, adh, reg, psc>>

\* one handler with all its threads (Spec), the prior sender and the destructor
NextSink ==
  \/ Next
  \/ \E h \in Handlers : SinkStep(prior_sender_sink_hook(h))
  \/ Step(DestructHandlers)

SpecSink == Init /\ [][NextSink]_vars

\* ------------------------------------------- ps_connector::start and terminate
\* tran_server.cpp 745-749: start (): assert (m_terminate.load () == true) (the assertion
\* on m_page_server_conn_vec holds: boot calls start () in the branch of a non-empty vector)
PscStartAssert ==
  /\ psc.start = "none"
  /\ IF AssertFails(m_terminate)
     THEN Abort("start: assert (m_terminate.load () == true)") /\ UNCHANGED psc
     ELSE psc' = [psc EXCEPT !.start = "store"] /\ UNCHANGED aborted
  /\ UNCHANGED m_terminate

\* tran_server.cpp 754: m_terminate.store (false)
PscStartStore ==
  /\ psc.start = "store"
  /\ m_terminate' = FALSE
  /\ psc' = [psc EXCEPT !.start = "create"]
  /\ UNCHANGED aborted

\* tran_server.cpp 756-759: m_daemon = create_daemon (...); start () returns
PscStartCreate ==
  /\ psc.start = "create"
  /\ psc' = [psc EXCEPT !.start = "done", !.m_daemon = "created"]
  /\ UNCHANGED <<aborted, m_terminate>>

\* terminate () that destroys the daemon whatever the flag was
PscTerminateExchange_IgnoresFlag(t) ==
  /\ psc.callers[t] = "none"
  /\ psc.start \in {"none", "done"}
  /\ m_terminate' = TRUE
  /\ psc' = [psc EXCEPT !.callers[t] = "destroy",
                        !.after_start = IF psc.start = "done" THEN @ \cup {t} ELSE @]
  /\ UNCHANGED aborted

\* tran_server.cpp 763-765: terminate (): m_terminate.exchange (true); when the flag was
\* true the call returns.  The callers are disconnect_all_page_servers (433) and the
\* destructor (739-742); they run before boot has called start () or after it returned.
PscTerminateExchange(t) ==
  /\ psc.callers[t] = "none"
  /\ psc.start \in {"none", "done"}
  /\ m_terminate' = TRUE
  /\ psc' = [psc EXCEPT !.callers[t] = IF m_terminate THEN "returned" ELSE "destroy",
                        !.after_start = IF psc.start = "done" THEN @ \cup {t} ELSE @]
  /\ UNCHANGED aborted

\* tran_server.cpp 767: the flag was false: destroy_daemon (m_daemon); terminate () returns
PscDestroyDaemon(t) ==
  /\ psc.callers[t] = "destroy"
  /\ psc' = [psc EXCEPT !.callers[t] = "returned", !.m_daemon = "destroyed",
                        !.destroyed = @ + 1]
  /\ UNCHANGED <<aborted, m_terminate>>

\* a step of start () or of a call of terminate ()
PscStep(A) ==
  /\ Alive /\ A
  /\ UNCHANGED <<ndebug, hvars, m_main_conn, m_main_conn_mtx, thvars, recv_errors, m_saved_lsa,
                 consensus, flvars, boot, adh, reg, prior_lists>>

NextPsc ==
  \/ PscStep(PscStartAssert)
  \/ PscStep(PscStartStore)
  \/ PscStep(PscStartCreate)
  \/ \E t \in Terminators : PscStep(PscTerminateExchange(t))
  \/ \E t \in Terminators : PscStep(PscDestroyDaemon(t))

SpecPsc == Init /\ [][NextPsc]_vars

\* ------------------------------------ active_tran_server::compute_consensus_lsa
\* active_tran_server.cpp 71-78: the saved LSAs of the handlers whose is_connected () is
\* true, in the order of m_page_server_conn_vec
RECURSIVE Collect(_, _, _)
Collect(state, saved_lsa, h) ==
  IF h > Len(state) THEN <<>>
  ELSE (IF state[h] = "CONNECTED" THEN <<saved_lsa[h]>> ELSE <<>>)
         \o Collect(state, saved_lsa, h + 1)

\* std::sort (active_tran_server.cpp 105): ascending, by insertion
RECURSIVE InsertSorted(_, _)
InsertSorted(sorted, x) ==
  IF sorted = <<>> THEN <<x>>
  ELSE IF x <= Head(sorted) THEN <<x>> \o sorted
  ELSE <<Head(sorted)>> \o InsertSorted(Tail(sorted), x)

RECURSIVE SortAscending(_)
SortAscending(lsas) ==
  IF lsas = <<>> THEN <<>> ELSE InsertSorted(SortAscending(Tail(lsas)), Head(lsas))

\* compute_consensus_lsa that counts every handler that is not IDLE
compute_consensus_lsa_CountsNotIdle(state, saved_lsa) ==
  LET total_node_cnt == Len(state)
      quorum == total_node_cnt \div 2 + 1
      collected_saved_lsa ==
        Collect([h \in DOMAIN state |-> IF state[h] = "IDLE" THEN "IDLE" ELSE "CONNECTED"],
                saved_lsa, 1)
      cur_node_cnt == Len(collected_saved_lsa)
  IN  IF cur_node_cnt < quorum
      THEN NULL_LSA
      ELSE SortAscending(collected_saved_lsa)[(cur_node_cnt - quorum) + 1]

\* compute_consensus_lsa that takes the element [quorum - 1] of the sorted LSAs
compute_consensus_lsa_QuorumthSmallest(state, saved_lsa) ==
  LET total_node_cnt == Len(state)
      quorum == total_node_cnt \div 2 + 1
      collected_saved_lsa == Collect(state, saved_lsa, 1)
      cur_node_cnt == Len(collected_saved_lsa)
  IN  IF cur_node_cnt < quorum
      THEN NULL_LSA
      ELSE SortAscending(collected_saved_lsa)[(quorum - 1) + 1]

\* active_tran_server.cpp 64-136: quorum is the majority of the registered handlers; with
\* fewer connected handlers the result is NULL_LSA, otherwise the element
\* [cur_node_cnt - quorum] (counted from 0) of the sorted saved LSAs.  The logging under
\* PRM_ID_ER_LOG_QUORUM_CONSENSUS does not change the result.
compute_consensus_lsa(state, saved_lsa) ==
  LET total_node_cnt == Len(state)
      quorum == total_node_cnt \div 2 + 1
      collected_saved_lsa == Collect(state, saved_lsa, 1)
      cur_node_cnt == Len(collected_saved_lsa)
  IN  IF cur_node_cnt < quorum
      THEN NULL_LSA
      ELSE SortAscending(collected_saved_lsa)[(cur_node_cnt - quorum) + 1]

\* log_global.c 126: a caller obtains the consensus LSA of the handlers as they are
ComputeConsensus ==
  /\ ~consensus.computed
  /\ consensus' = [computed |-> TRUE, lsa |-> compute_consensus_lsa(m_state, m_saved_lsa)]
  /\ UNCHANGED <<ndebug, aborted, hvars, tsvars, thvars, recv_errors, m_saved_lsa, flvars, boot,
                 adh, reg, prior_lists, psc>>

\* The states of the handlers when compute_consensus_lsa is called: after boot, with the
\* daemon running, each handler is CONNECTED or not (here IDLE, with no conn), and holds
\* the last saved LSA its page server sent (NULL_LSA if none).  Vectors of up to
\* MaxMixedNodes handlers (none included) are taken in every state: CONNECTING with the
\* catch-up under way, DISCONNECTING with the teardown task just launched.
ConsensusStates == {"IDLE", "CONNECTED"}

InitDrawn(n, states, lsas) ==
    /\ ndebug \in BOOLEAN
    /\ aborted = "none"
    /\ m_state \in [1..n -> states]
    /\ m_saved_lsa \in [1..n -> lsas]
    /\ m_conn = [h \in 1..n |-> IF m_state[h] = "IDLE" THEN "null" ELSE "set"]
    /\ incoming = [h \in 1..n |-> IF m_state[h] = "IDLE" THEN "none" ELSE "running"]
    /\ sender = [h \in 1..n |-> IF m_state[h] = "IDLE" THEN "none" ELSE "idle"]
    /\ m_state_mtx = [h \in 1..n |-> "free"]
    /\ m_conn_mtx = [h \in 1..n |-> FreeMtx]
    /\ m_disconn_future = [h \in 1..n |->
                             IF m_state[h] = "DISCONNECTING" THEN "valid" ELSE "invalid"]
    /\ tasks = [h \in 1..n |->
                  IF m_state[h] = "DISCONNECTING"
                  THEN <<[pc |-> "on_disconnecting", with_disc_msg |-> FALSE,
                          from |-> "CONNECTED"]>>
                  ELSE <<>>]
    /\ m_prior_sender_sink_hook_func = [h \in 1..n |-> m_state[h] # "IDLE"]
    /\ catchup_pending = [h \in 1..n |-> m_state[h] = "CONNECTING"]
    /\ spawned = [h \in 1..n |-> IF m_state[h] = "DISCONNECTING" THEN 1 ELSE 0]
    /\ disc_msg_sent = [h \in 1..n |-> 0]
    /\ m_main_conn = (IF n = 0 THEN 0 ELSE 1)
    /\ m_main_conn_mtx = FreeMtx
    /\ m_terminate = FALSE
    /\ connector = [phase |-> "daemon", pc |-> "sleep", idx |-> 1, newly_connected |-> FALSE,
                    ret |-> NO_ERROR]
    /\ rmc = [t \in Threads |-> NoRmc]
    /\ requester = [r \in Requesters |-> IdleRequester]
    /\ shutdown = [pc |-> "none", idx |-> 1, called_in |-> [h \in 1..n |-> "none"]]
    /\ recv_errors = 0
    /\ consensus = NotComputed
    /\ InitFlushVars
    /\ boot = UntrackedBoot
    /\ InitAdh
    /\ reg = NotRegistered(<<>>)
    /\ prior_lists = NoPriorLists
    /\ psc = NotStarted

InitConsensus ==
  \E n \in 0..MaxNodes :
    \/ InitDrawn(n, ConsensusStates, LsaValues)
    \/ n <= MaxMixedNodes /\ InitDrawn(n, States, LsaValues)

NextConsensus == ComputeConsensus

SpecConsensus == InitConsensus /\ [][NextConsensus]_vars

\* ------------------------- log_global::wait_for_ps_flushed_lsa and its wake-up
SetWaiter(w, pc) == waiter' = [waiter EXCEPT ![w].pc = pc]

\* log_global.c 118-120: a thread calls wait_for_ps_flushed_lsa (flush_lsa) and locks
\* m_ps_lsa_mutex
WaitCall(w, flush_lsa) ==
  /\ waiter[w].pc = "idle"
  /\ waiter' = [waiter EXCEPT ![w] = [IdleWaiter EXCEPT !.pc = "lock", !.flush_lsa = flush_lsa]]
  /\ UNCHANGED <<aborted, m_saved_lsa, m_ps_lsa_up_to_date, m_ps_consensus_flushed_lsa,
                 m_ps_lsa_mutex>>

\* log_global.c 120 and 137: the mutex is taken on entry, and again when cv.wait ends
WaitLock(w) ==
  /\ waiter[w].pc \in {"lock", "woken"}
  /\ m_ps_lsa_mutex = {}
  /\ m_ps_lsa_mutex' = {w}
  /\ SetWaiter(w, "test")
  /\ UNCHANGED <<aborted, m_saved_lsa, m_ps_lsa_up_to_date, m_ps_consensus_flushed_lsa>>

\* log_global.c 121, 140-141: the loop ends when the consensus has reached flush_lsa;
\* the function returns and the mutex is released
WaitReturn(w) ==
  /\ waiter[w].pc = "test"
  /\ ~(m_ps_consensus_flushed_lsa < waiter[w].flush_lsa)
  /\ m_ps_lsa_mutex' = {}
  /\ SetWaiter(w, "returned")
  /\ UNCHANGED <<aborted, m_saved_lsa, m_ps_lsa_up_to_date, m_ps_consensus_flushed_lsa>>

\* log_global.c 121-124 and 135: the consensus is below flush_lsa;
\* m_ps_lsa_up_to_date.exchange (true): the thread that finds it false computes the
\* consensus, the others go on to wait.
WaitExchange(w) ==
  /\ waiter[w].pc = "test"
  /\ m_ps_consensus_flushed_lsa < waiter[w].flush_lsa
  /\ m_ps_lsa_up_to_date' = TRUE
  /\ IF ~m_ps_lsa_up_to_date
     THEN waiter' = [waiter EXCEPT ![w].pc = "compute", ![w].idx = 1,
                                   ![w].collected_saved_lsa = <<>>]
     ELSE SetWaiter(w, "wait")
  /\ UNCHANGED <<aborted, m_saved_lsa, m_ps_consensus_flushed_lsa, m_ps_lsa_mutex>>

\* active_tran_server.cpp 71-78, one round of the loop: is_connected () under the shared
\* m_state_mtx, then get_saved_lsa () of a connected handler
WaitCollect(w) ==
  LET h == waiter[w].idx
  IN /\ waiter[w].pc = "compute" /\ h <= NumHandlers
     /\ m_state_mtx[h] = "free"
     /\ waiter' = [waiter EXCEPT ![w].idx = h + 1,
                                 ![w].collected_saved_lsa =
                                    IF m_state[h] = "CONNECTED"
                                    THEN Append(@, m_saved_lsa[h]) ELSE @]
     /\ UNCHANGED <<aborted, m_saved_lsa, m_ps_lsa_up_to_date, m_ps_consensus_flushed_lsa,
                    m_ps_lsa_mutex>>

\* active_tran_server.cpp 67-68 and 90-106: the result for the collected saved LSAs
ConsensusOf(collected_saved_lsa) ==
  LET total_node_cnt == NumHandlers
      quorum == total_node_cnt \div 2 + 1
      cur_node_cnt == Len(collected_saved_lsa)
  IN  IF cur_node_cnt < quorum
      THEN NULL_LSA
      ELSE SortAscending(collected_saved_lsa)[(cur_node_cnt - quorum) + 1]

\* WaitAssign that takes the largest collected saved LSA for the consensus
WaitAssign_TakesLargest(w) ==
  LET collected == waiter[w].collected_saved_lsa
      consensus_lsa == IF collected = <<>> THEN NULL_LSA
                       ELSE SortAscending(collected)[Len(collected)]
  IN /\ waiter[w].pc = "compute" /\ waiter[w].idx > NumHandlers
     /\ IF consensus_lsa = NULL_LSA
        THEN UNCHANGED <<aborted, m_ps_consensus_flushed_lsa>>
        ELSE /\ m_ps_consensus_flushed_lsa' = consensus_lsa
             /\ UNCHANGED aborted
     /\ SetWaiter(w, "test")
     /\ UNCHANGED <<m_saved_lsa, m_ps_lsa_up_to_date, m_ps_lsa_mutex>>

\* log_global.c 126-133: with NULL_LSA (quorum not met) the loop continues; otherwise
\* assert (m_ps_consensus_flushed_lsa <= consensus_lsa) and the consensus is assigned
WaitAssign(w) ==
  LET consensus_lsa == ConsensusOf(waiter[w].collected_saved_lsa)
  IN /\ waiter[w].pc = "compute" /\ waiter[w].idx > NumHandlers
     /\ IF consensus_lsa = NULL_LSA
        THEN /\ SetWaiter(w, "test")
             /\ UNCHANGED <<aborted, m_ps_consensus_flushed_lsa>>
        ELSE IF AssertFails(m_ps_consensus_flushed_lsa <= consensus_lsa)
        THEN /\ Abort("wait_for_ps_flushed_lsa: assert (m_ps_consensus_flushed_lsa <= consensus_lsa)")
             /\ UNCHANGED <<waiter, m_ps_consensus_flushed_lsa>>
        ELSE /\ m_ps_consensus_flushed_lsa' = consensus_lsa
             /\ SetWaiter(w, "test")
             /\ UNCHANGED aborted
     /\ UNCHANGED <<m_saved_lsa, m_ps_lsa_up_to_date, m_ps_lsa_mutex>>

\* log_global.c 137: m_ps_lsa_cv.wait (ulock) releases the mutex and blocks
WaitBegin(w) ==
  /\ waiter[w].pc = "wait"
  /\ m_ps_lsa_mutex' = {}
  /\ SetWaiter(w, "waiting")
  /\ UNCHANGED <<aborted, m_saved_lsa, m_ps_lsa_up_to_date, m_ps_consensus_flushed_lsa>>

\* std::condition_variable::wait may end without a notification
SpuriousWakeup(w) ==
  /\ waiter[w].pc = "waiting"
  /\ SetWaiter(w, "woken")
  /\ UNCHANGED <<aborted, m_saved_lsa, m_ps_lsa_up_to_date, m_ps_consensus_flushed_lsa,
                 m_ps_lsa_mutex>>

\* receive_saved_lsa that stores whatever LSA arrives
receive_saved_lsa_StoresAny(h, saved_lsa) ==
  /\ incoming[h] = "running"
  /\ m_saved_lsa' = [m_saved_lsa EXCEPT ![h] = saved_lsa]
  /\ m_ps_lsa_up_to_date' = FALSE
  /\ waiter' = [w \in Waiters |->
                  IF waiter[w].pc = "waiting" THEN [waiter[w] EXCEPT !.pc = "woken"]
                  ELSE waiter[w]]
  /\ UNCHANGED <<aborted, m_ps_consensus_flushed_lsa, m_ps_lsa_mutex>>

\* active_tran_server.cpp 195-214 and log_global.c 110-115: SEND_SAVED_LSA on the incoming
\* thread of the conn: assert (saved_lsa >= get_saved_lsa ()); a larger LSA is stored and
\* wakeup_ps_flush_waiters () sets m_ps_lsa_up_to_date to false and notifies every thread
\* that is waiting on m_ps_lsa_cv, without m_ps_lsa_mutex.
receive_saved_lsa(h, saved_lsa) ==
  /\ incoming[h] = "running"
  /\ IF AssertFails(saved_lsa >= m_saved_lsa[h])
     THEN /\ Abort("receive_saved_lsa: assert (saved_lsa >= get_saved_lsa ())")
          /\ UNCHANGED <<m_saved_lsa, m_ps_lsa_up_to_date, waiter>>
     ELSE IF saved_lsa > m_saved_lsa[h]
     THEN /\ m_saved_lsa' = [m_saved_lsa EXCEPT ![h] = saved_lsa]
          /\ m_ps_lsa_up_to_date' = FALSE
          /\ waiter' = [w \in Waiters |->
                          IF waiter[w].pc = "waiting" THEN [waiter[w] EXCEPT !.pc = "woken"]
                          ELSE waiter[w]]
          /\ UNCHANGED aborted
     ELSE UNCHANGED <<aborted, m_saved_lsa, m_ps_lsa_up_to_date, waiter>>
  /\ UNCHANGED <<m_ps_consensus_flushed_lsa, m_ps_lsa_mutex>>

\* a step of wait_for_ps_flushed_lsa or of receive_saved_lsa: the handlers stay as they are
FlushStep(A) ==
  Alive /\ A /\ UNCHANGED <<ndebug, hvars, tsvars, thvars, recv_errors, consensus, last_msg, boot,
                          adh, reg, prior_lists, psc>>

\* the SEND_SAVED_LSA that is processed is noted in the history (seq alternates)
NotedMsg(h, saved_lsa) ==
  /\ Alive
  /\ receive_saved_lsa(h, saved_lsa)
  /\ last_msg' = [h |-> h, lsa |-> saved_lsa, seq |-> 1 - last_msg.seq]
  /\ UNCHANGED <<ndebug, hvars, tsvars, thvars, recv_errors, consensus, boot, adh, reg, prior_lists, psc>>

\* a step of a handler
HandlerStep(A) == Step(A)

\* FlushNodes handlers, the last one still completing the catch-up and the others
\* connected; no saved LSA has arrived yet.
InitFlush ==
  \E state \in [1..FlushNodes -> {"CONNECTING", "CONNECTED"}] :
    /\ \A h \in 1..FlushNodes : (state[h] = "CONNECTING") = (h = FlushNodes)
    /\ InitDrawn(FlushNodes, {state[h] : h \in 1..FlushNodes}, {NULL_LSA})
    /\ m_state = state

\* the steps of the threads inside wait_for_ps_flushed_lsa
WaitStep ==
  \/ \E w \in Waiters, flush_lsa \in FlushTargets : FlushStep(WaitCall(w, flush_lsa))
  \/ \E w \in Waiters : FlushStep(WaitLock(w))
  \/ \E w \in Waiters : FlushStep(WaitReturn(w))
  \/ \E w \in Waiters : FlushStep(WaitExchange(w))
  \/ \E w \in Waiters : FlushStep(WaitCollect(w))
  \/ \E w \in Waiters : FlushStep(WaitAssign(w))
  \/ \E w \in Waiters : FlushStep(WaitBegin(w))

\* Saved LSAs arrive while the threads wait and the connections stay as they are; the
\* history keeps the last message.
NextLsa ==
  \/ \E w \in Waiters, flush_lsa \in FlushTargets : FlushStep(WaitCall(w, flush_lsa))
  \/ \E w \in Waiters : FlushStep(WaitLock(w))
  \/ \E w \in Waiters : FlushStep(WaitReturn(w))
  \/ \E w \in Waiters : FlushStep(WaitExchange(w))
  \/ \E w \in Waiters : FlushStep(WaitCollect(w))
  \/ \E w \in Waiters : FlushStep(WaitAssign(w))
  \/ \E w \in Waiters : FlushStep(WaitBegin(w))
  \/ \E w \in Waiters : FlushStep(SpuriousWakeup(w))
  \/ \E h \in Handlers, saved_lsa \in SentLsas : NotedMsg(h, saved_lsa)

SpecLsa == InitFlush /\ [][NextLsa]_vars

\* the threads inside wait_for_ps_flushed_lsa are scheduled; neither a message of a page
\* server nor a spurious wake-up has to come
FairSpecLsa == SpecLsa /\ WF_vars(WaitStep)

\* Connections complete, break and are torn down while saved LSAs arrive and threads wait
\* for a flushed LSA.
NextFlush ==
  \/ \E w \in Waiters, flush_lsa \in FlushTargets : FlushStep(WaitCall(w, flush_lsa))
  \/ \E w \in Waiters : FlushStep(WaitLock(w))
  \/ \E w \in Waiters : FlushStep(WaitReturn(w))
  \/ \E w \in Waiters : FlushStep(WaitExchange(w))
  \/ \E w \in Waiters : FlushStep(WaitCollect(w))
  \/ \E w \in Waiters : FlushStep(WaitAssign(w))
  \/ \E w \in Waiters : FlushStep(WaitBegin(w))
  \/ \E w \in Waiters : FlushStep(SpuriousWakeup(w))
  \/ \E h \in Handlers, saved_lsa \in SentLsas : FlushStep(receive_saved_lsa(h, saved_lsa))
  \/ \E h \in Handlers : HandlerStep(receive_catchup_complete(h))
  \/ \E h \in Handlers : CountedStep(RecvErrorHandler(h))
  \/ \E h \in Handlers, i \in 1..2 : HandlerStep(TaskOnDisconnecting(h, i))
  \/ \E h \in Handlers, i \in 1..2 : HandlerStep(TaskStopIncoming(h, i))
  \/ \E h \in Handlers, i \in 1..2 : HandlerStep(TaskLockState(h, i))
  \/ \E h \in Handlers, i \in 1..2 : HandlerStep(TaskLockConn(h, i))
  \/ \E h \in Handlers, i \in 1..2 : HandlerStep(TaskResetConn(h, i))

SpecFlush == InitFlush /\ [][NextFlush]_vars

\* ----------------------------------------------- tran_server::boot, with its result
\* a step of a thread while boot has not returned
BootStep(A) ==
  /\ Alive /\ boot.pc # "returned"
  /\ A
  /\ UNCHANGED <<m_saved_lsa, consensus, flvars, adh, reg, prior_lists, psc>>

\* a step that leaves boot where it is
DuringBoot(A) == BootStep(A) /\ UNCHANGED <<recv_errors, boot>>

\* the receive error of a conn during boot, counted against MaxRecvErrors
CountedDuringBoot(A) ==
  /\ recv_errors < MaxRecvErrors
  /\ BootStep(A)
  /\ recv_errors' = recv_errors + 1
  /\ UNCHANGED boot

\* a step of boot itself
OfBoot(A) == BootStep(A) /\ UNCHANGED recv_errors

\* boot returns error_code
BootReturns(error_code) == boot' = [boot EXCEPT !.pc = "returned", !.error_code = error_code]

\* tran_server.cpp 270-294 and 120-190 with no handler registered: an empty hosts string
\* is ER_EMPTY_PAGE_SERVER_HOSTS_CONFIG with remote storage and NO_ERROR without, and then
\* boot skips the main connection and the daemon (m_page_server_conn_vec is empty) and
\* returns NO_ERROR; a hosts string with no valid token is ER_HOST_PORT_PARAMETER.
BootNoHandler ==
  /\ boot.pc = "init_hosts" /\ NumHandlers = 0
  /\ BootReturns(IF boot.hosts = "bad" THEN ER_HOST_PORT_PARAMETER
                 ELSE IF boot.uses_remote_storage THEN ER_EMPTY_PAGE_SERVER_HOSTS_CONFIG
                 ELSE NO_ERROR)
  /\ UNCHANGED <<ndebug, aborted, hvars, tsvars, thvars>>

\* tran_server.cpp 303-343 and 120-145: connect () returned: it is counted; after the last
\* handler, no connection with remote storage is ER_NO_PAGE_SERVER_CONNECTION, which boot
\* returns; otherwise the errors are cleared, init_page_server_hosts returns NO_ERROR and
\* boot goes on to prepare_connections and the loop of reset_main_connection.
BootConnectReturned ==
  /\ boot.pc = "init_hosts"
  /\ connector.phase = "boot" /\ connector.pc = "ret"
  /\ LET valid_connection_count ==
           boot.valid_connection_count + (IF connector.ret = NO_ERROR THEN 1 ELSE 0)
         failed_conn == boot.failed_conn \/ connector.ret # NO_ERROR
         counted == [boot EXCEPT !.valid_connection_count = valid_connection_count,
                                 !.failed_conn = failed_conn]
     IN IF connector.idx = NumHandlers /\ valid_connection_count = 0
           /\ boot.uses_remote_storage
        THEN /\ boot' = [counted EXCEPT !.pc = "returned",
                                        !.error_code = ER_NO_PAGE_SERVER_CONNECTION]
             /\ connector' = [connector EXCEPT !.phase = "boot_failed", !.pc = "none"]
             /\ UNCHANGED <<ndebug, aborted, hvars, tsvars, rmc, requester, shutdown>>
        ELSE /\ BootAfterConnect
             /\ boot' = [counted EXCEPT !.pc = IF connector.idx < NumHandlers
                                               THEN @ ELSE "reset_loop"]

\* reset_main_connection (tran_server.cpp 449-475), the scan that made the main
\* connection kept as history
BootRmcScan(t) ==
  /\ RmcScan(t)
  /\ boot' = IF rmc'[t].pc = "done" /\ rmc'[t].result = NO_ERROR
             THEN [boot EXCEPT !.chosen = rmc'[t].seen] ELSE boot

\* BootResetReturned that starts the daemon whatever reset_main_connection returned
BootResetReturned_StartsAnyway ==
  /\ boot.pc = "reset_loop"
  /\ connector.phase = "boot" /\ connector.pc = "reset"
  /\ rmc[0].pc = "done"
  /\ m_terminate' = FALSE
  /\ connector' = [connector EXCEPT !.phase = "daemon", !.pc = "sleep"]
  /\ rmc' = [rmc EXCEPT ![0] = NoRmc]
  /\ boot' = IF boot.uses_remote_storage THEN [boot EXCEPT !.pc = "get_boot_info"]
             ELSE [boot EXCEPT !.pc = "returned", !.error_code = NO_ERROR]
  /\ UNCHANGED <<ndebug, aborted, hvars, m_main_conn, m_main_conn_mtx, requester, shutdown>>

\* tran_server.cpp 143-189: reset_main_connection returned in the loop of boot: on
\* NO_ERROR m_ps_connector.start (), then get_boot_info_from_page_server with remote
\* storage, and NO_ERROR is returned without; otherwise sleep and call it again.
BootResetReturned ==
  /\ boot.pc = "reset_loop"
  /\ BootAfterReset
  /\ boot' = IF rmc[0].result # NO_ERROR THEN boot
             ELSE IF boot.uses_remote_storage THEN [boot EXCEPT !.pc = "get_boot_info"]
             ELSE [boot EXCEPT !.pc = "returned", !.error_code = NO_ERROR]

\* tran_server.cpp 159-167: the loop has lasted more than 30 seconds: assert (false), and
\* with the assertion compiled out boot returns the error of reset_main_connection
BootTimedOut ==
  /\ boot.pc = "reset_loop"
  /\ BootTimeout
  /\ IF ndebug THEN BootReturns(rmc[0].result) ELSE UNCHANGED boot

\* tran_server.cpp 349-352: get_boot_info_from_page_server calls send_receive
\* (GET_BOOT_INFO) on the thread of boot
BootGetBootInfo(r) ==
  /\ boot.pc = "get_boot_info"
  /\ ReqCall(r, "send_receive")
  /\ boot' = [boot EXCEPT !.pc = "in_get_boot_info"]

\* tran_server.cpp 353-366 and 181-189: send_receive returned; its error is the result of
\* boot, and NO_ERROR otherwise (the page server answers VOLID_MAX)
BootGotBootInfo(r) ==
  /\ boot.pc = "in_get_boot_info"
  /\ ReqReturn(r)
  /\ BootReturns(requester[r].err_code)

\* The hosts configuration has registered up to BootHandlers handlers (none: the string is
\* empty or holds no valid token); the storage is local or remote.
InitBoot ==
  \E n \in 0..BootHandlers :
    /\ InitRegistered(n)
    /\ \E uses_remote_storage \in BOOLEAN,
          hosts \in (IF n = 0 THEN {"empty", "bad"} ELSE {"good"}) :
         boot = [UntrackedBoot EXCEPT !.pc = "init_hosts", !.hosts = hosts,
                                      !.uses_remote_storage = uses_remote_storage]
    /\ reg = NotRegistered(<<>>)

\* boot until it returns, with the page servers accepting or refusing, completing the
\* catch-up and breaking the connection, and the daemon once it is started
NextBoot ==
  \/ OfBoot(BootNoHandler)
  \/ \E h \in Handlers : DuringBoot(ConnectBegin(h))
  \/ \E h \in Handlers : DuringBoot(ConnectFail(h))
  \/ \E h \in Handlers : DuringBoot(ConnectSucceed(h))
  \/ \E h \in Handlers : DuringBoot(TransitionAddSink(h))
  \/ \E h \in Handlers : DuringBoot(TransitionSendStartCatchUp(h))
  \/ OfBoot(BootConnectReturned)
  \/ \E h \in Handlers : DuringBoot(receive_catchup_complete(h))
  \/ \E h \in Handlers : CountedDuringBoot(RecvErrorHandler(h))
  \/ \E h \in Handlers, i \in 1..2 : DuringBoot(TaskOnDisconnecting(h, i))
  \/ \E h \in Handlers, i \in 1..2 : DuringBoot(TaskStopIncoming(h, i))
  \/ \E h \in Handlers, i \in 1..2 : DuringBoot(TaskLockState(h, i))
  \/ \E h \in Handlers, i \in 1..2 : DuringBoot(TaskLockConn(h, i))
  \/ \E h \in Handlers, i \in 1..2 : DuringBoot(TaskResetConn(h, i))
  \/ \E t \in Threads : DuringBoot(RmcLock(t))
  \/ \E t \in Threads : OfBoot(BootRmcScan(t))
  \/ OfBoot(BootResetReturned)
  \/ OfBoot(BootTimedOut)
  \/ DuringBoot(TickBegin)
  \/ \E h \in Handlers : DuringBoot(TickIsIdle(h))
  \/ DuringBoot(TickAfterConnect)
  \/ DuringBoot(TickCheckTerminate)
  \/ DuringBoot(TickAfterReset)
  \/ \E r \in Requesters : OfBoot(BootGetBootInfo(r))
  \/ \E r \in Requesters : DuringBoot(ReqAttempt(r))
  \/ \E r \in Requesters : DuringBoot(SendRecvResponse(r))
  \/ \E r \in Requesters : DuringBoot(SendRecvWoken(r))
  \/ \E r \in Requesters : DuringBoot(SendRecvChannelError(r))
  \/ \E r \in Requesters : DuringBoot(ReqCheck(r))
  \/ \E r \in Requesters : DuringBoot(ReqAfterReset(r))
  \/ \E r \in Requesters : OfBoot(BootGotBootInfo(r))

SpecBoot == InitBoot /\ [][NextBoot]_vars


\* ------------------------------------------------------ async_disconnect_handler
\* async_disconnect_handler.cpp (active_tran_server.cpp 353-357 and 363-368):
\* disconnect () reads m_terminate: false goes on to the queue; true is assert (false),
\* and the handler is dropped when the assertion is compiled out
AdhDisconnectCheck(c) ==
  /\ adh.callers[c] = "none"
  /\ IF ~adh.m_terminate
     THEN adh' = [adh EXCEPT !.callers[c] = "checked"] /\ UNCHANGED aborted
     ELSE IF AssertFails(FALSE)
     THEN Abort("disconnect: assert (false)") /\ UNCHANGED adh
     ELSE adh' = [adh EXCEPT !.callers[c] = "returned"] /\ UNCHANGED aborted

\* active_tran_server.cpp 358-361: under m_queue_mtx the handler is put at the end of
\* m_disconnect_queue; notify_one; disconnect () returns
AdhDisconnectEnqueue(c) ==
  /\ adh.callers[c] = "checked"
  /\ adh' = [adh EXCEPT !.callers[c] = "returned",
                        !.m_disconnect_queue = Append(@, c)]
  /\ UNCHANGED aborted

\* active_tran_server.cpp 374-375: terminate () stores true in m_terminate and notifies
AdhTerminateStore ==
  /\ adh.term = "none"
  /\ adh' = [adh EXCEPT !.term = "join", !.m_terminate = TRUE,
                        !.before = {c \in Disconnected : adh.callers[c] = "returned"}]
  /\ UNCHANGED aborted

\* active_tran_server.cpp 377-387: m_thread.join () ends when the worker has left
\* disconnect_loop; then assert (m_disconnect_queue.empty ()) and terminate () returns
AdhTerminateJoin ==
  /\ adh.term = "join"
  /\ adh.worker = "exited"
  /\ IF AssertFails(adh.m_disconnect_queue = <<>>)
     THEN Abort("terminate: assert (m_disconnect_queue.empty ())") /\ UNCHANGED adh
     ELSE adh' = [adh EXCEPT !.term = "returned"] /\ UNCHANGED aborted

\* active_tran_server.cpp 396: while (!m_terminate.load ()): the worker leaves the loop,
\* and the thread ends, when m_terminate is true
AdhLoopTest ==
  /\ adh.worker = "loop_test"
  /\ adh' = [adh EXCEPT !.worker = IF adh.m_terminate THEN "exited" ELSE "wait"]
  /\ UNCHANGED aborted

\* active_tran_server.cpp 398-407: under m_queue_mtx, wait_for up to one second for
\* a non-empty queue or m_terminate: when it holds the queue is swapped with the (empty)
\* work buffer, otherwise the wait times out and the loop continues
AdhWait ==
  /\ adh.worker = "wait"
  /\ IF adh.m_disconnect_queue # <<>> \/ adh.m_terminate
     THEN adh' = [adh EXCEPT !.worker = "destruct",
                             !.disconnect_work_buffer = adh.m_disconnect_queue,
                             !.m_disconnect_queue = adh.disconnect_work_buffer]
     ELSE adh' = [adh EXCEPT !.worker = "loop_test"]
  /\ UNCHANGED aborted

\* active_tran_server.cpp 409-414: outside the mutex the front of the work buffer is
\* destructed and popped; with the buffer empty the loop continues
AdhDestruct ==
  /\ adh.worker = "destruct"
  /\ IF adh.disconnect_work_buffer # <<>>
     THEN adh' = [adh EXCEPT !.disconnect_work_buffer = Tail(@),
                             !.destructed = @ \cup {Head(adh.disconnect_work_buffer)}]
     ELSE adh' = [adh EXCEPT !.worker = "loop_test"]
  /\ UNCHANGED aborted

\* a step of a caller or of the worker thread of async_disconnect_handler
AdhStep(A) ==
  /\ Alive /\ A
  /\ UNCHANGED <<ndebug, hvars, tsvars, thvars, recv_errors, m_saved_lsa, consensus, flvars,
                 boot, reg, prior_lists, psc>>

NextAdh ==
  \/ \E c \in Disconnected : AdhStep(AdhDisconnectCheck(c))
  \/ \E c \in Disconnected : AdhStep(AdhDisconnectEnqueue(c))
  \/ AdhStep(AdhTerminateStore)
  \/ AdhStep(AdhTerminateJoin)
  \/ AdhStep(AdhLoopTest)
  \/ AdhStep(AdhWait)
  \/ AdhStep(AdhDestruct)

SpecAdh == Init /\ [][NextAdh]_vars


\* ------------------------------------------ tran_server::register_connection_handlers
\* std::string::npos, the largest size_t: larger than every length and position
NPOS == 2147483647
USHRT_MAX == 65535
INT_MAX == 2147483647

\* std::string::find of one character: the position (from 0) of its first occurrence, or npos
RECURSIVE FindFrom(_, _, _)
FindFrom(str, ch, i) ==
  IF i > Len(str) THEN NPOS
  ELSE IF str[i] = ch THEN i - 1
  ELSE FindFrom(str, ch, i + 1)

Find(str, ch) == FindFrom(str, ch, 1)

\* length () - 1 in size_t: the length 0 wraps around to the largest size_t
LengthMinusOne(str) == IF Len(str) = 0 THEN NPOS ELSE Len(str) - 1

\* std::string::substr (pos) and substr (0, n)
SubstrFrom(str, pos) == SubSeq(str, pos + 1, Len(str))
SubstrTo(str, n) == SubSeq(str, 1, n)

Digits == {"0", "9"}
DigitValue(ch) == IF ch = "9" THEN 9 ELSE 0

\* std::stoi: the value of the longest prefix of digits; an exception (here -1, what port
\* keeps in register_connection_handler) when there is no digit (std::invalid_argument) or
\* the value is above INT_MAX (std::out_of_range).  The characters after the digits are
\* ignored.
RECURSIVE StoiFrom(_, _, _)
StoiFrom(str, i, acc) ==
  IF i > Len(str) \/ str[i] \notin Digits THEN acc
  ELSE IF acc > (INT_MAX - DigitValue(str[i])) \div 10 THEN -1
  ELSE StoiFrom(str, i + 1, acc * 10 + DigitValue(str[i]))

Stoi(str) == IF str = <<>> \/ str[1] \notin Digits THEN -1 ELSE StoiFrom(str, 1, 0)

\* tran_server.cpp 45-80: register_connection_handler (host) on the vector vec: the
\* vector afterwards and the code returned
register_connection_handler(vec, host) ==
  LET col_pos == Find(host, ":")
  IN IF col_pos < 1 \/ col_pos >= LengthMinusOne(host)
     THEN [vec |-> vec, code |-> ER_HOST_PORT_PARAMETER]
     ELSE LET port == Stoi(SubstrFrom(host, col_pos + 1))
          IN IF port < 1 \/ port > USHRT_MAX
             THEN [vec |-> vec, code |-> ER_HOST_PORT_PARAMETER]
             ELSE [vec |-> Append(vec, [host |-> SubstrTo(host, col_pos), port |-> port]),
                   code |-> NO_ERROR]

\* tran_server.cpp 98-111: the loop over the tokens that end with a comma, then the rest
RECURSIVE RegisterTokens(_, _, _)
RegisterTokens(vec, hosts, exit_code) ==
  LET pos == Find(hosts, ",")
  IN IF pos # NPOS
     THEN LET r == register_connection_handler(vec, SubstrTo(hosts, pos))
          IN RegisterTokens(r.vec, SubstrFrom(hosts, pos + 1),
                            IF r.code # NO_ERROR THEN ER_HOST_PORT_PARAMETER ELSE exit_code)
     ELSE LET r == register_connection_handler(vec, hosts)
          IN [vec |-> r.vec,
              code |-> IF r.code # NO_ERROR THEN ER_HOST_PORT_PARAMETER ELSE exit_code]

\* tran_server.cpp 82-114: register_connection_handlers (hosts): the test of the first
\* colon of the whole string, which returns with nothing registered, then the tokens
register_connection_handlers(hosts) ==
  LET col_pos == Find(hosts, ":")
  IN IF col_pos < 1 \/ col_pos >= LengthMinusOne(hosts)
     THEN [vec |-> <<>>, code |-> ER_HOST_PORT_PARAMETER]
     ELSE RegisterTokens(<<>>, hosts, NO_ERROR)

\* tran_server.cpp 286: init_page_server_hosts calls register_connection_handlers on the
\* (non-empty) hosts string
RegisterHosts ==
  /\ ~reg.called
  /\ LET r == register_connection_handlers(reg.hosts)
     IN reg' = [reg EXCEPT !.called = TRUE, !.m_page_server_conn_vec = r.vec,
                           !.exit_code = r.code]
  /\ UNCHANGED <<ndebug, aborted, hvars, tsvars, thvars, recv_errors, m_saved_lsa, consensus,
                 flvars, boot, adh, prior_lists, psc>>

\* every hosts string of 1..MaxHostsLen characters
InitReg ==
  /\ InitRegistered(0)
  /\ boot = UntrackedBoot
  /\ \E n \in 1..MaxHostsLen : \E hosts \in [1..n -> HostChars] : reg = NotRegistered(hosts)

NextReg == RegisterHosts

SpecReg == InitReg /\ [][NextReg]_vars


TypeOK ==
  /\ m_state \in [Handlers -> States]
  /\ \A h \in Handlers : Len(tasks[h]) <= 2 /\ spawned[h] <= 2


\* ------------------------------------------------------------------ claims
\* the transition table of the connection state
LegalTransitions ==
  { <<"IDLE", "CONNECTING">>, <<"CONNECTING", "IDLE">>, <<"CONNECTING", "CONNECTED">>,
    <<"CONNECTING", "DISCONNECTING">>, <<"CONNECTED", "DISCONNECTING">>,
    <<"DISCONNECTING", "IDLE">> }

\* C1: every change of a handler's m_state is one of the transitions of the table
\* (IDLE->CONNECTING, CONNECTING->IDLE, CONNECTING->CONNECTED, CONNECTING->DISCONNECTING,
\* CONNECTED->DISCONNECTING, DISCONNECTING->IDLE); CONNECTED->CONNECTING never occurs.
C1_OnlyLegalTransitions ==
  [][\A h \in Handlers :
       m_state'[h] # m_state[h] => <<m_state[h], m_state'[h]>> \in LegalTransitions]_vars


\* a SEND_CATCHUP_COMPLETE of handler h is processed in this step
CatchupCompleteProcessed(h) ==
  catchup_pending[h] /\ ~catchup_pending'[h] /\ m_conn'[h] = "set"

\* C2: m_state becomes CONNECTED only when SEND_CATCHUP_COMPLETE is processed in
\* CONNECTING (connect () alone leaves CONNECTING), and a SEND_CATCHUP_COMPLETE processed
\* in another state changes nothing.
C2_ConnectedOnlyByCatchupInConnecting ==
  [][\A h \in Handlers :
       /\ (m_state'[h] = "CONNECTED" /\ m_state[h] # "CONNECTED")
            => (m_state[h] = "CONNECTING" /\ CatchupCompleteProcessed(h))
       /\ (CatchupCompleteProcessed(h) /\ m_state[h] # "CONNECTING")
            => (m_state'[h] = m_state[h] /\ aborted' = aborted)]_vars

\* C3: disconnect_async in IDLE or DISCONNECTING changes nothing and launches no task (seen
\* on the calls of the send error callback and of disconnect_all_page_servers, and on
\* every step: no task is launched from IDLE or DISCONNECTING); a handler that became
\* active has at most one teardown task launched until it becomes active again; once
\* wait_async_disconnection has returned the handler is IDLE.
C3_NoTaskFromIdleOrDisconnecting(h) ==
  m_state[h] \in {"IDLE", "DISCONNECTING"} =>
    /\ Len(tasks'[h]) <= Len(tasks[h])
    /\ spawned'[h] <= spawned[h]
    /\ ~(m_disconn_future[h] = "invalid" /\ m_disconn_future'[h] = "valid")
    /\ ( \/ sender[h] = "in_handler" /\ sender'[h] = "idle"
         \/ shutdown.pc = "disconnect" /\ shutdown.idx = h /\ shutdown' # shutdown )
         => UNCHANGED <<m_state, m_conn, tasks, m_disconn_future, m_state_mtx, m_conn_mtx>>

C3_Waited(h) ==
  shutdown.pc = "done" \/ (shutdown.pc = "wait" /\ shutdown.idx > h)

C3_DisconnectAsyncIdempotent ==
  /\ [](\A h \in Handlers : spawned[h] <= 1)
  /\ [](\A h \in Handlers : C3_Waited(h) => m_state[h] = "IDLE")
  /\ [][\A h \in Handlers : C3_NoTaskFromIdleOrDisconnecting(h)]_vars

\* C3's case: the handler was CONNECTED when an error callback called disconnect_async,
\* disconnect_all_page_servers called it again, one task was launched and the wait is over
C3_Witness ==
  \E h \in Handlers :
    /\ C3_Waited(h)
    /\ spawned[h] = 1
    /\ tasks[h] = <<[pc |-> "done", with_disc_msg |-> FALSE, from |-> "CONNECTED"]>>
    /\ m_state[h] = "IDLE"


\* ------------------------------------------------------------------ fairness
\* Every thread of the process that can take its next step takes it: the teardown tasks,
\* the sending thread inside its error callback, the callers of push_request and
\* send_receive, the connector and the shutdown.  What the network and the page servers
\* do (errors, responses, the outcome of a connection attempt) is left free.
TeardownStep(h, i) ==
  \/ TaskOnDisconnecting(h, i)
  \/ TaskStopIncoming(h, i)
  \/ TaskLockState(h, i)
  \/ TaskLockConn(h, i)
  \/ TaskResetConn(h, i)

RequesterStep(r) ==
  \/ ReqAttempt(r)
  \/ SendRecvWoken(r)
  \/ ReqCheck(r)
  \/ RmcLock(r)
  \/ RmcScan(r)
  \/ ReqAfterReset(r)
  \/ ReqReturn(r)

ShutdownStep ==
  \/ ShutdownDestroyDaemon
  \/ \E h \in Handlers : ShutdownDisconnect(h)
  \/ \E h \in Handlers : ShutdownWait(h)

Fairness ==
  /\ \A h \in 1..OneHandler, i \in 1..2 : WF_vars(Step(TeardownStep(h, i)))
  /\ \A h \in 1..OneHandler : WF_vars(Step(SendErrorHandler(h)))
  /\ \A r \in Requesters : WF_vars(Step(RequesterStep(r)))
  /\ WF_vars(Step(ShutdownStep))

FairSpec == Init /\ [][Next]_vars /\ Fairness

\* C4: a handler that is DISCONNECTING is eventually IDLE (as long as the process lives),
\* also when an error callback of its conn calls disconnect_async while the teardown
\* holds the locks and joins the conn's threads.
C4_DisconnectingReachesIdle ==
  \A h \in 1..OneHandler :
    (m_state[h] = "DISCONNECTING") ~> (m_state[h] = "IDLE" \/ ~Alive)


\* C5: a send_receive blocked in its round trip on a handler that disconnect_async has made
\* DISCONNECTING returns, and the teardown then takes m_conn_mtx and finishes (the handler
\* is IDLE): neither waits on the other forever.
C5_BlockedSendReceiveAndTeardownFinish ==
  \A r \in Requesters, h \in 1..OneHandler :
    (requester[r].pc = "send_recv" /\ requester[r].on = h /\ m_state[h] = "DISCONNECTING")
      ~> ((requester[r].pc # "send_recv" /\ m_state[h] = "IDLE") \/ ~Alive)


\* a reset_main_connection of thread t returns in this step
ResetReturns(t) == rmc[t].pc = "scan" /\ rmc'[t].pc = "done"

\* C6: when reset_main_connection returns NO_ERROR, m_main_conn is the handler of the
\* lowest index among those whose is_connected () was true during the scan: the scan
\* began at the first handler, every handler before the chosen one answered false, and
\* the chosen one is CONNECTED at that step.
C6_LowestConnectedBecomesMain ==
  [][\A t \in Threads :
       (ResetReturns(t) /\ rmc'[t].result = NO_ERROR) =>
         LET seen == rmc'[t].seen
         IN  /\ Len(seen) \in Handlers
             /\ m_main_conn' = Len(seen)
             /\ seen[Len(seen)]
             /\ \A j \in 1..(Len(seen) - 1) : ~seen[j]
             /\ m_state[m_main_conn'] = "CONNECTED"]_vars

\* C6's case: with three handlers the main connection was the second one (the first was
\* not connected then), the second has left CONNECTED, the first and the third are
\* CONNECTED, and the rotation has just chosen the first
C6_Witness ==
  \E t \in Threads :
    /\ NumHandlers = 3
    /\ rmc[t].pc = "done" /\ rmc[t].result = NO_ERROR
    /\ rmc[t].was = 2
    /\ m_main_conn = 1
    /\ m_state[1] = "CONNECTED" /\ m_state[2] # "CONNECTED" /\ m_state[3] = "CONNECTED"

\* C7 as stated: when reset_main_connection finds no handler connected it returns
\* ER_CONN_NO_PAGE_SERVER_AVAILABLE and m_main_conn is null afterwards.
C7_NoneConnectedNullsMain ==
  [][\A t \in Threads :
       (ResetReturns(t) /\ \A j \in DOMAIN rmc'[t].seen : ~rmc'[t].seen[j]) =>
         (rmc'[t].result = ER_CONN_NO_PAGE_SERVER_AVAILABLE /\ m_main_conn' = 0)]_vars

\* C7 amended: reset_main_connection returns ER_CONN_NO_PAGE_SERVER_AVAILABLE exactly when
\* is_connected () was false for every handler of the vector, and then m_main_conn keeps
\* the value it had (the former main handler, or null if none was ever chosen).
C7_NoneConnectedKeepsMain ==
  [][\A t \in Threads :
       ResetReturns(t) =>
         /\ (rmc'[t].result = ER_CONN_NO_PAGE_SERVER_AVAILABLE)
              <=> (\A j \in DOMAIN rmc'[t].seen : ~rmc'[t].seen[j])
         /\ (rmc'[t].result = ER_CONN_NO_PAGE_SERVER_AVAILABLE)
              => (Len(rmc'[t].seen) = NumHandlers /\ m_main_conn' = m_main_conn)]_vars

\* C7's case: a reset_main_connection has found no handler connected while a main
\* connection had been chosen before
C7_Witness ==
  \E t \in Threads :
    /\ rmc[t].pc = "done" /\ rmc[t].result = ER_CONN_NO_PAGE_SERVER_AVAILABLE
    /\ rmc[t].was # 0
    /\ m_main_conn = rmc[t].was

\* C8: while another handler is CONNECTED, a push_request or send_receive whose attempt
\* on the main handler failed because that handler was not CONNECTED does not end
\* without reset_main_connection and a retry; and a push_request ends with its request
\* handed to no conn only when reset_main_connection reported that no handler is connected.
C8_FailedAttemptRotatesAndRetries ==
  \A r \in Requesters :
    (requester[r].pc = "done" /\ \E h \in Handlers : h # m_main_conn /\ m_state[h] = "CONNECTED")
      => /\ ~requester[r].rejected
         /\ (requester[r].op = "push_request" /\ requester[r].delivered = 0)
              => rmc[r].result = ER_CONN_NO_PAGE_SERVER_AVAILABLE

\* C9 as stated: tran_server::send_receive returns no error other than
\* ER_CONN_NO_PAGE_SERVER_AVAILABLE.
C9_OnlyNoPageServerAvailableSurfaces ==
  \A r \in Requesters :
    (requester[r].pc = "done" /\ requester[r].op = "send_receive")
      => requester[r].err_code \in {NO_ERROR, ER_CONN_NO_PAGE_SERVER_AVAILABLE}

\* C9 amended: tran_server::send_receive returns NO_ERROR when a conn served the request,
\* ER_CONN_NO_PAGE_SERVER_AVAILABLE when reset_main_connection reported it, and
\* ER_CONN_PAGE_SERVER_CANNOT_BE_REACHED when the attempt failed and the is_connected ()
\* of the main handler that followed returned true (no reset, no retry).
C9_SurfacedErrors ==
  \A r \in Requesters :
    (requester[r].pc = "done" /\ requester[r].op = "send_receive")
      => \/ requester[r].err_code = NO_ERROR /\ requester[r].delivered # 0
         \/ /\ requester[r].err_code = ER_CONN_NO_PAGE_SERVER_AVAILABLE
            /\ rmc[r].result = ER_CONN_NO_PAGE_SERVER_AVAILABLE
            /\ requester[r].delivered = 0
         \/ /\ requester[r].err_code = ER_CONN_PAGE_SERVER_CANNOT_BE_REACHED
            /\ requester[r].saw_connected
            /\ requester[r].delivered = 0

\* C9's case: a send_receive has returned ER_CONN_PAGE_SERVER_CANNOT_BE_REACHED
C9_Witness ==
  \E r \in Requesters :
    /\ requester[r].pc = "done" /\ requester[r].op = "send_receive"
    /\ requester[r].err_code = ER_CONN_PAGE_SERVER_CANNOT_BE_REACHED

\* the handlers whose is_connected () is true, and the quorum
ConnectedHandlers == {h \in Handlers : m_state[h] = "CONNECTED"}
Quorum == NumHandlers \div 2 + 1
\* how many connected handlers have saved an LSA in the set P
SavedIn(P) == Cardinality({h \in ConnectedHandlers : m_saved_lsa[h] \in P})

\* C10: with at least q = N / 2 + 1 handlers connected, compute_consensus_lsa returns the
\* element of index |S| - q of the ascending saved LSAs S of the connected handlers (at
\* most |S| - q of them are below it, more than |S| - q are not above it), which is the
\* highest LSA that at least q connected handlers have reached; the four examples of the
\* source give 6, 9, 6, 9.
C10_ConsensusIsQuorumLsa ==
  /\ (consensus.computed /\ Cardinality(ConnectedHandlers) >= Quorum) =>
       LET v == consensus.lsa
           k == Cardinality(ConnectedHandlers) - Quorum
       IN  /\ SavedIn({v}) > 0
           /\ SavedIn({l \in LsaValues : l < v}) <= k
           /\ SavedIn({l \in LsaValues : l <= v}) > k
           /\ SavedIn({l \in LsaValues : l >= v}) >= Quorum
           /\ \A L \in LsaValues : L > v => SavedIn({l \in LsaValues : l >= L}) < Quorum
  /\ compute_consensus_lsa([h \in 1..5 |-> "CONNECTED"], <<5, 5, 6, 9, 10>>) = 6
  /\ compute_consensus_lsa([h \in 1..2 |-> "CONNECTED"], <<9, 10>>) = 9
  /\ compute_consensus_lsa(<<"CONNECTED", "CONNECTED", "IDLE", "CONNECTED", "CONNECTED">>,
                           <<5, 6, 10, 9, 10>>) = 6
  /\ compute_consensus_lsa(<<"CONNECTED", "IDLE", "CONNECTED">>, <<10, 5, 9>>) = 9

\* C10's case: five handlers, four of them connected with the saved LSAs 5, 6, 9 and 10
\* in some order, and compute_consensus_lsa has returned 6
C10_Witness ==
  /\ consensus.computed
  /\ NumHandlers = 5
  /\ Cardinality(ConnectedHandlers) = 4
  /\ {m_saved_lsa[h] : h \in ConnectedHandlers} = {5, 6, 9, 10}
  /\ consensus.lsa = 6


\* C11: compute_consensus_lsa returns NULL_LSA whenever fewer than q = N / 2 + 1 of the N
\* registered handlers are CONNECTED, whatever the saved LSAs (also with no handler at
\* all); a handler that is IDLE, CONNECTING or DISCONNECTING is not counted.  The example:
\* three handlers, only the first connected, with a saved LSA, gives NULL_LSA.
C11_NoQuorumGivesNullLsa ==
  /\ (consensus.computed /\ Cardinality(ConnectedHandlers) < Quorum) => consensus.lsa = NULL_LSA
  /\ compute_consensus_lsa(<<"CONNECTED", "IDLE", "IDLE">>, <<100, NULL_LSA, NULL_LSA>>) = NULL_LSA
  /\ compute_consensus_lsa(<<"CONNECTED", "CONNECTING", "DISCONNECTING">>, <<10, 10, 10>>) = NULL_LSA
  /\ compute_consensus_lsa(<<>>, <<>>) = NULL_LSA

\* C11's case: three handlers, one CONNECTED, one CONNECTING and one DISCONNECTING, all
\* with a saved LSA that is not NULL_LSA, and compute_consensus_lsa has returned NULL_LSA
C11_Witness ==
  /\ consensus.computed
  /\ NumHandlers = 3
  /\ m_state[1] = "CONNECTED" /\ m_state[2] = "CONNECTING" /\ m_state[3] = "DISCONNECTING"
  /\ \A h \in Handlers : m_saved_lsa[h] = 10
  /\ consensus.lsa = NULL_LSA


\* the handlers whose saved LSA is at least lsa
SavedAtLeast(lsa) == {h \in Handlers : m_saved_lsa[h] >= lsa}

\* C12: wait_for_ps_flushed_lsa (target) returns only when the consensus flushed LSA is at
\* least target, and every value assigned to the consensus flushed LSA is the result of a
\* compute_consensus_lsa that met the quorum: at least N / 2 + 1 handlers were seen
\* CONNECTED with a saved LSA of at least that value.
C12_ReturnsAtTargetAndConsensusHasQuorum ==
  [][/\ \A w \in Waiters :
          (waiter[w].pc # "returned" /\ waiter'[w].pc = "returned")
            => m_ps_consensus_flushed_lsa' >= waiter[w].flush_lsa
     /\ m_ps_consensus_flushed_lsa' # m_ps_consensus_flushed_lsa
          => \E w \in Waiters :
               LET seen == waiter[w].collected_saved_lsa
               IN /\ waiter[w].pc = "compute" /\ waiter[w].idx > NumHandlers
                  /\ m_ps_consensus_flushed_lsa' # NULL_LSA
                  /\ Cardinality({i \in 1..Len(seen) : seen[i] >= m_ps_consensus_flushed_lsa'})
                       >= Quorum
                  /\ Cardinality(SavedAtLeast(m_ps_consensus_flushed_lsa')) >= Quorum]_vars

\* a thread has returned with the consensus at its target while a handler is not connected
C12_Witness ==
  \E w \in Waiters :
    /\ waiter[w].pc = "returned" /\ waiter[w].flush_lsa = 10
    /\ m_ps_consensus_flushed_lsa = 10
    /\ Cardinality(ConnectedHandlers) < NumHandlers


\* C13: once the saved LSAs have advanced so that compute_consensus_lsa returns at least
\* the target of a thread inside wait_for_ps_flushed_lsa, and nothing changes afterwards,
\* that thread eventually returns: the wake-up of receive_saved_lsa is not lost by a thread
\* that has tested m_ps_lsa_up_to_date and has not yet started to wait.
C13_WaitersEventuallyReturn ==
  \A w \in Waiters :
    (/\ waiter[w].pc \notin {"idle", "returned"}
     /\ compute_consensus_lsa(m_state, m_saved_lsa) >= waiter[w].flush_lsa)
      ~> (waiter[w].pc = "returned" \/ ~Alive)


\* C14: the saved LSA of a handler starts at NULL_LSA and never decreases: a SEND_SAVED_LSA
\* with a larger LSA stores it and wakes the flush waiters; an equal one changes nothing
\* and wakes no one; a smaller one violates the assertion and is never stored.
C14_SavedLsaMonotonic ==
  /\ \A h \in 1..FlushNodes : m_saved_lsa[h] = NULL_LSA
  /\ [][/\ \A h \in Handlers : m_saved_lsa'[h] >= m_saved_lsa[h]
        /\ last_msg'.seq # last_msg.seq =>
             LET h == last_msg'.h
                 saved_lsa == last_msg'.lsa
             IN /\ saved_lsa > m_saved_lsa[h] =>
                     /\ m_saved_lsa' = [m_saved_lsa EXCEPT ![h] = saved_lsa]
                     /\ m_ps_lsa_up_to_date' = FALSE
                     /\ \A w \in Waiters : waiter[w].pc = "waiting" => waiter'[w].pc = "woken"
                     /\ aborted' = "none"
                /\ saved_lsa = m_saved_lsa[h] =>
                     UNCHANGED <<m_saved_lsa, m_ps_lsa_up_to_date, waiter, aborted>>
                /\ saved_lsa < m_saved_lsa[h] =>
                     /\ UNCHANGED <<m_saved_lsa, m_ps_lsa_up_to_date, waiter>>
                     /\ ~ndebug => aborted' # "none"]_vars

\* with the assertion compiled out a smaller LSA has arrived: the larger one is kept and
\* the waiting thread sleeps on
C14_Witness ==
  /\ ndebug /\ last_msg.h # 0
  /\ last_msg.lsa = 5 /\ m_saved_lsa[last_msg.h] = 10
  /\ m_ps_lsa_up_to_date
  /\ \E w \in Waiters : waiter[w].pc = "waiting"


\* C20: every non-NULL LSA that wait_for_ps_flushed_lsa obtains from compute_consensus_lsa
\* is at least the current consensus flushed LSA, so the assertion before the assignment
\* never fails and the consensus flushed LSA never decreases, whatever connects,
\* disconnects and SEND_SAVED_LSA happen between two computations.
C20_ConsensusNeverDecreases ==
  [][/\ m_ps_consensus_flushed_lsa' >= m_ps_consensus_flushed_lsa
     /\ aborted' # "wait_for_ps_flushed_lsa: assert (m_ps_consensus_flushed_lsa <= consensus_lsa)"]_vars


\* C15: with remote storage and a valid hosts list, boot succeeds if and only if at least
\* one page server accepted the connection; with none it fails with
\* ER_NO_PAGE_SERVER_CONNECTION.
C15_RemoteBootSucceedsIffAccepted ==
  (boot.uses_remote_storage /\ boot.hosts = "good") =>
    /\ boot.pc = "returned" =>
         ((boot.error_code = NO_ERROR) <=> (boot.valid_connection_count >= 1))
    /\ (boot.pc = "returned" /\ boot.valid_connection_count = 0) =>
         boot.error_code = ER_NO_PAGE_SERVER_CONNECTION
    /\ boot.valid_connection_count >= 1 => aborted # "boot: assert (false)"


\* C16: with local storage, a valid hosts list and no successful connection, boot clears
\* the errors of the connections, goes on and succeeds.
C16_LocalBootSucceedsWithoutConnection ==
  (/\ ~boot.uses_remote_storage /\ boot.hosts = "good"
   /\ boot.pc \in {"reset_loop", "returned"} /\ boot.valid_connection_count = 0) =>
    /\ boot.pc = "returned" => boot.error_code = NO_ERROR
    /\ aborted # "boot: assert (false)"


\* boot has returned NO_ERROR with at least one handler registered
BootSucceeded == boot.pc = "returned" /\ boot.error_code = NO_ERROR /\ NumHandlers >= 1

\* the daemon is started by this step
DaemonStarted == m_terminate /\ ~m_terminate'

\* the main connection is the first handler that the scan which chose it found CONNECTED
MainIsFirstSeenConnected ==
  /\ m_main_conn \in Handlers
  /\ Len(boot.chosen) = m_main_conn
  /\ boot.chosen[m_main_conn]
  /\ \A h \in 1..(m_main_conn - 1) : ~boot.chosen[h]

\* C17 as stated: boot starts the daemon only after reset_main_connection succeeded and
\* never with no handler registered; when boot returns success with a handler registered,
\* the main connection is the lowest-index handler that was CONNECTED when it was chosen,
\* which is the first handler when every page server accepted.
C17_MainIsFirstWhenAllAccept ==
  /\ [](BootSucceeded => MainIsFirstSeenConnected)
  /\ []((BootSucceeded /\ boot.valid_connection_count = NumHandlers) => m_main_conn = 1)
  /\ [][DaemonStarted =>
          NumHandlers >= 1 /\ rmc[0].pc = "done" /\ rmc[0].result = NO_ERROR]_vars

\* C17: boot starts the daemon only after reset_main_connection succeeded and never with
\* no handler registered; when boot returns success with a handler registered, the main
\* connection is the lowest-index handler that was CONNECTED when it was chosen (the first
\* handler only if its catch-up had completed by then).
C17_DaemonAfterMainConnection ==
  /\ [](BootSucceeded => MainIsFirstSeenConnected)
  /\ [](~m_terminate => NumHandlers >= 1 /\ m_main_conn \in Handlers)
  /\ [][DaemonStarted =>
          NumHandlers >= 1 /\ rmc[0].pc = "done" /\ rmc[0].result = NO_ERROR]_vars

\* every page server accepted, the second completed the catch-up first and is the main
\* connection when boot returns
C17_Witness ==
  /\ BootSucceeded /\ ~m_terminate
  /\ NumHandlers = 2 /\ boot.valid_connection_count = 2
  /\ m_main_conn = 2 /\ boot.chosen = <<FALSE, TRUE>>


\* C19: when terminate () of the asynchronous disconnect worker returns, the worker thread
\* has ended and the queue is empty: every handler that disconnect () had enqueued before
\* terminate () was called, one enqueued while the worker was destructing an earlier batch
\* included, has been destructed by the worker.
C19_TerminateLeavesNothingQueued ==
  /\ aborted # "terminate: assert (m_disconnect_queue.empty ())"
  /\ adh.term = "returned" =>
       /\ adh.worker = "exited"
       /\ adh.m_disconnect_queue = <<>>
       /\ adh.before \subseteq adh.destructed


\* the tokens of a comma-separated list, in order
RECURSIVE Tokens(_)
Tokens(str) ==
  LET pos == Find(str, ",")
  IN IF pos = NPOS THEN <<str>>
     ELSE <<SubstrTo(str, pos)>> \o Tokens(SubstrFrom(str, pos + 1))

\* a token is valid: it has a colon, not at position 0 and not last, and the port after it
\* parses to a number in [1, 65535]
ValidToken(token) ==
  LET col_pos == Find(token, ":")
  IN /\ col_pos # NPOS /\ col_pos # 0 /\ col_pos # Len(token) - 1
     /\ Stoi(SubstrFrom(token, col_pos + 1)) \in 1..USHRT_MAX

\* the nodes of the valid tokens, in the order of the tokens
RECURSIVE NodesOf(_)
NodesOf(tokens) ==
  IF tokens = <<>> THEN <<>>
  ELSE LET token == Head(tokens)
           col_pos == Find(token, ":")
       IN (IF ValidToken(token)
           THEN <<[host |-> SubstrTo(token, col_pos),
                   port |-> Stoi(SubstrFrom(token, col_pos + 1))]>>
           ELSE <<>>) \o NodesOf(Tail(tokens))

\* C18: register_connection_handlers registers exactly one handler per valid host:port
\* token of the comma-separated list, in the order of the input, and none for an invalid
\* token (colon missing, at position 0 or last, port unparsable or outside [1, 65535]); an
\* invalid token anywhere, the first included, does not keep the remaining valid tokens
\* from being registered.
C18_OneHandlerPerValidToken ==
  reg.called => reg.m_page_server_conn_vec = NodesOf(Tokens(reg.hosts))

\* C21: when a tick of the ps_connector that newly connected a handler and was not
\* terminated has called reset_main_connection, the call returns NO_ERROR (the
\* assertion in try_connect_to_all_ps does not fail).
C21_TickResetReturnsNoError ==
  (connector.phase = "daemon" /\ connector.pc = "reset" /\ rmc[0].pc = "done")
    => rmc[0].result = NO_ERROR

\* C22: connect () is only called on a handler that is IDLE when connect () takes
\* m_state_mtx: neither in boot nor in a tick of the ps_connector does its assertion
\* fail, and from is_idle () returning true to the call the handler stays IDLE.
C22_ConnectOnlyInIdle ==
  /\ aborted # "connect: assert (m_state == state::IDLE)"
  /\ connector.pc = "connect" => m_state[connector.idx] = "IDLE"

\* C22's case: a tick has called connect () on a handler that was torn down before
C22_Witness ==
  /\ connector.phase = "daemon" /\ connector.pc = "handshake"
  /\ m_state[connector.idx] = "CONNECTING"
  /\ tasks[connector.idx] # <<>>

\* the locks that a thread holds from one step to the next: the connector holds
\* m_state_mtx over the handshake of connect () (tran_server.cpp 382-419); a request
\* thread holds m_conn_mtx shared over the round trip of send_receive (690-695)
ConnectorHoldsStateMtx == \E h \in Handlers : m_state_mtx[h] = "connect"
RequesterHoldsConnMtx(r) == \E h \in Handlers : r \in m_conn_mtx[h].shared

\* the next step of the thread locks m_main_conn_mtx: reset_main_connection
\* (tran_server.cpp 452), get_main_connection_info called by transition_to_connected
\* (495), the entry and the retry of push_request / send_receive (196, 222)
ConnectorLocksMainNext ==
  rmc[0].pc = "lock" \/ (connector.pc = "start_catch_up" /\ connector.phase = "daemon")
RequesterLocksMainNext(r) ==
  requester[r].pc = "idle" \/ rmc[r].pc = "lock" \/ requester[r].pc = "reset"

\* the next step of the request thread locks a handler's m_state_mtx: the attempt
\* (tran_server.cpp 654, 682), is_connected () after it (200, 226) and the scan of
\* reset_main_connection (458)
RequesterLocksStateNext(r) ==
  requester[r].pc \in {"attempt", "check"} \/ rmc[r].pc = "scan"

\* C23: the locks are taken in the order m_main_conn_mtx, m_state_mtx, m_conn_mtx: a
\* thread that is about to lock m_main_conn_mtx holds no m_state_mtx and no m_conn_mtx,
\* a thread that is about to lock m_state_mtx holds no m_conn_mtx, and the teardown task
\* holds m_conn_mtx only inside m_state_mtx.
C23_LockOrder ==
  /\ ConnectorLocksMainNext => ~ConnectorHoldsStateMtx
  /\ \A r \in Requesters : RequesterLocksMainNext(r) => ~RequesterHoldsConnMtx(r)
  /\ \A r \in Requesters : RequesterLocksStateNext(r) => ~RequesterHoldsConnMtx(r)
  /\ \A h \in Handlers :
       m_conn_mtx[h].excl # {} => m_state_mtx[h] \in {"teardown", "connect"}

\* C23's case: a send_receive holds m_main_conn_mtx and the handler's m_conn_mtx shared
\* while the teardown task holds m_state_mtx and waits for m_conn_mtx
C23_Witness ==
  \E r \in Requesters, h \in Handlers :
    /\ requester[r].pc = "send_recv" /\ requester[r].on = h
    /\ r \in m_main_conn_mtx.shared /\ r \in m_conn_mtx[h].shared
    /\ m_state_mtx[h] = "teardown"
    /\ \E i \in DOMAIN tasks[h] : tasks[h][i].pc = "lock_conn"

\* m_state and m_conn of handler h can be read under its locks: no thread holds
\* m_state_mtx or m_conn_mtx exclusively
Observable(h) == m_state_mtx[h] = "free" /\ m_conn_mtx[h].excl = {}

\* C24: read under the handler's locks, m_conn is null when m_state is IDLE and set
\* when m_state is CONNECTED or DISCONNECTING, and also when it is CONNECTING (the lock
\* is released only after the handshake succeeded); the teardown task never finds
\* m_conn null at stop_incoming_communication_thread.
C24_ConnMatchesState ==
  /\ \A h \in Handlers :
       Observable(h) => (m_conn[h] = "null" <=> m_state[h] = "IDLE")
  /\ \A h \in Handlers : \A i \in DOMAIN tasks[h] :
       tasks[h][i].pc = "stop_incoming" => m_conn[h] = "set"
  /\ aborted # "teardown: m_conn is nullptr"

\* C24's case: a teardown task launched from CONNECTING is about to call
\* stop_incoming_communication_thread
C24_Witness ==
  \E h \in Handlers : \E i \in DOMAIN tasks[h] :
    /\ tasks[h][i].pc = "stop_incoming" /\ tasks[h][i].from = "CONNECTING"
    /\ m_state[h] = "DISCONNECTING" /\ m_conn[h] = "set"

\* a request is pushed on the conn of handler h in this step: the attempt of push_request
\* or send_receive on a CONNECTED handler, SEND_START_CATCH_UP, SEND_LOG_PRIOR_LIST
PushedOn(h) ==
  \/ \E r \in Requesters :
       /\ requester[r].pc = "attempt" /\ m_main_conn = h
       /\ (requester'[r].delivered = h \/ requester'[r].on = h)
  \/ connector.pc = "start_catch_up" /\ connector.idx = h /\ connector'.pc = "ret"
  \/ prior_lists'.n > prior_lists.n /\ prior_lists'.h = h

\* SEND_DISCONNECT_MSG is pushed on the conn of handler h in this step
DisconnectMsgPushed(h) == disc_msg_sent'[h] > disc_msg_sent[h]

\* C25: on a connection SEND_DISCONNECT_MSG is pushed at most once, only by a teardown
\* task with with_disc_msg true (the tasks of the error callbacks have it false), and
\* no other request is pushed on the connection after it.
C25_DisconnectMsgIsLast ==
  /\ [](\A h \in 1..OneHandler : disc_msg_sent[h] <= 1)
  /\ [][\A h \in 1..OneHandler :
          /\ DisconnectMsgPushed(h) =>
               \E i \in DOMAIN tasks[h] :
                 /\ tasks[h][i].pc = "lock_conn" /\ tasks'[h][i].pc = "reset_conn"
                 /\ tasks[h][i].with_disc_msg
          /\ (disc_msg_sent[h] >= 1 /\ m_conn[h] = "set") => ~PushedOn(h)]_vars

\* C25's case: SEND_DISCONNECT_MSG has been pushed on a conn that carried a
\* SEND_LOG_PRIOR_LIST before, and the conn is about to be destroyed
C25_Witness ==
  \E h \in Handlers : \E i \in DOMAIN tasks[h] :
    /\ disc_msg_sent[h] = 1 /\ m_conn[h] = "set"
    /\ tasks[h][i].pc = "reset_conn" /\ tasks[h][i].with_disc_msg
    /\ prior_lists.n >= 1 /\ prior_lists.h = h

\* the attempt of request thread r on the main connection is made in this step
Attempted(r) == requester[r].pc = "attempt" /\ requester'[r].pc # "attempt"

\* C26: connection_handler::push_request and send_receive on a handler that is not
\* CONNECTED return ER_CONN_PAGE_SERVER_CANNOT_BE_REACHED and neither lock nor use
\* m_conn; on a CONNECTED handler they use a conn that exists, and as long as
\* send_receive holds m_conn_mtx shared the conn is not destroyed.
C26_RequestsUseLiveConn ==
  /\ [](\A r \in Requesters :
          requester[r].pc = "send_recv" =>
            /\ requester[r].on \in Handlers
            /\ r \in m_conn_mtx[requester[r].on].shared
            /\ m_conn[requester[r].on] = "set")
  /\ [][\A r \in Requesters :
          Attempted(r) =>
            IF m_state[m_main_conn] # "CONNECTED"
            THEN /\ requester'[r].err_code = ER_CONN_PAGE_SERVER_CANNOT_BE_REACHED
                 /\ requester'[r].pc = "check"
                 /\ requester'[r].delivered = 0 /\ requester'[r].on = 0
                 /\ UNCHANGED <<m_conn, m_conn_mtx>>
            ELSE m_conn[m_main_conn] = "set"]_vars

\* C26's case: a send_receive is in its round trip on a handler that has become
\* DISCONNECTING; the teardown has stopped the incoming thread and the conn still exists
C26_Witness ==
  \E r \in Requesters :
    /\ requester[r].pc = "send_recv"
    /\ m_state[requester[r].on] = "DISCONNECTING"
    /\ incoming[requester[r].on] = "stopped"
    /\ m_conn[requester[r].on] = "set"

\* the handlers that disconnect () has put in the queue and the worker has not destructed
AdhPending ==
  {adh.m_disconnect_queue[k] : k \in DOMAIN adh.m_disconnect_queue}
    \cup {adh.disconnect_work_buffer[k] : k \in DOMAIN adh.disconnect_work_buffer}

\* a handler is destructed only by the worker thread, in its drain outside m_queue_mtx,
\* one at a time and never twice
AdhDestructedByWorkerOnce ==
  /\ [](AdhPending \cap adh.destructed = {})
  /\ [](Len(adh.m_disconnect_queue) + Len(adh.disconnect_work_buffer)
          = Cardinality(AdhPending))
  /\ [][adh'.destructed # adh.destructed =>
          /\ adh.worker = "destruct"
          /\ adh'.destructed = adh.destructed \cup {Head(adh.disconnect_work_buffer)}]_vars

\* C27: every handler that disconnect () enqueued while m_terminate was false is
\* destructed exactly once, by the worker thread and outside the queue mutex: once the
\* worker thread has ended no enqueued handler is left undestructed.
C27_EnqueuedDestructedOnceByWorker ==
  /\ AdhDestructedByWorkerOnce
  /\ [](adh.worker = "exited" => AdhPending = {})

\* C28: whatever the number and the interleaving of the calls of terminate (), the daemon
\* is destroyed at most once and only after start () created it, never when start () was
\* not called; once the calls that began after start () have returned, with at least one
\* such call, it has been destroyed exactly once; start () finds m_terminate true.
C28_TerminateIdempotent ==
  /\ [](psc.destroyed <= 1)
  /\ [](psc.start = "none" => psc.destroyed = 0)
  /\ []((psc.after_start # {} /\ \A t \in psc.after_start : psc.callers[t] = "returned")
          => psc.destroyed = 1)
  /\ [](aborted # "start: assert (m_terminate.load () == true)")
  /\ [][/\ psc'.destroyed # psc.destroyed => psc.m_daemon = "created"
        /\ (psc.start = "none" /\ psc'.start # "none") => m_terminate]_vars

\* C28's case: a call of terminate () before start (), then start (), then two concurrent
\* calls of which one has destroyed the daemon
C28_Witness ==
  /\ psc.start = "done" /\ psc.destroyed = 1
  /\ Cardinality(psc.after_start) = 2
  /\ \A t \in Terminators : psc.callers[t] = "returned"

\* push_request_regardless_of_state is executed on handler h in this step: by
\* send_start_catch_up_request or by prior_sender_sink_hook
PushedRegardlessOfState(h) ==
  \/ /\ connector.pc = "start_catch_up" /\ connector.idx = h
     /\ (connector'.pc = "ret" \/ aborted' = "push_request_regardless_of_state: m_conn is nullptr")
  \/ prior_lists'.n > prior_lists.n /\ prior_lists'.h = h

\* C29: push_request_regardless_of_state is never executed while m_conn is null, also
\* when a disconnect_async and its teardown run between the release of m_state_mtx in
\* connect () and transition_to_connected ().
C29_PushRegardlessFindsConn ==
  [][\A h \in 1..OneHandler : PushedRegardlessOfState(h) => m_conn[h] = "set"]_vars

\* C30: a handler has a prior sender sink registered only from transition_to_connected
\* to the on_disconnecting of its teardown: none while it is IDLE, none when it is
\* destructed, and none when transition_to_connected begins (the assertions on
\* m_prior_sender_sink_hook_func hold).
C30_SinkOnlyWhileConnected ==
  /\ \A h \in Handlers : m_state[h] = "IDLE" => ~m_prior_sender_sink_hook_func[h]
  /\ \A h \in Handlers :
       (connector.pc = "transition" /\ connector.idx = h) => ~m_prior_sender_sink_hook_func[h]
  /\ shutdown.pc \in {"done", "destructed"} =>
       \A h \in Handlers : ~m_prior_sender_sink_hook_func[h]
  /\ aborted # "transition_to_connected: assert (m_prior_sender_sink_hook_func == nullptr)"
  /\ aborted # "~connection_handler: assert (m_prior_sender_sink_hook_func == nullptr)"

\* ---------------------------------------------------------------- claim C31
\* disconnect_all_page_servers has returned (tran_server.cpp 429-447)
DisconnectAllReturned == shutdown.pc \in {"done", "destructed"}

\* C31: after disconnect_all_page_servers () has returned, the ps_connector is terminated
\* (m_terminate is set and its daemon destroyed), every handler is IDLE with an empty
\* m_conn, and no handler leaves IDLE afterwards, whatever the state of the handler was
\* when the function was called.
C31_AllIdleAfterDisconnectAll ==
  /\ [](DisconnectAllReturned =>
          /\ m_terminate /\ connector.phase = "destroyed"
          /\ \A h \in 1..OneHandler : m_state[h] = "IDLE" /\ m_conn[h] = "null")
  /\ [][DisconnectAllReturned =>
          \A h \in 1..OneHandler : m_state'[h] = "IDLE" /\ m_conn'[h] = "null"]_vars

\* the function has returned after a call that found the handler DISCONNECTING, with
\* the teardown of an error callback in flight
C31_Witness ==
  /\ DisconnectAllReturned
  /\ shutdown.called_in[1] = "DISCONNECTING"
  /\ m_state[1] = "IDLE" /\ m_conn[1] = "null"

\* ---------------------------------------------------------------- claim C32
\* The round trip of a send_receive ends: the page server answers or the channel fails
\* (css send_recv, not among the sources, returns in both cases).
RoundTripEnds(r) == SendRecvResponse(r) \/ SendRecvChannelError(r)

\* A reset_main_connection that waits for m_main_conn_mtx gets it when the lock is free
\* again and again (a stream of requests does not starve it), and the connector's
\* reset_main_connection goes on as the requesters' do.
FairnessReq ==
  /\ \A r \in Requesters : WF_vars(Step(RoundTripEnds(r)))
  /\ \A t \in Threads : SF_vars(Step(RmcLock(t)))
  /\ WF_vars(Step(RmcScan(0)))

FairSpecReq == FairSpec /\ FairnessReq

\* a call of push_request or send_receive of thread r is under way
InRequest(r) == requester[r].pc # "idle"

\* a reset_main_connection of thread t waits for m_main_conn_mtx
ResetPending(t) == rmc[t].pc = "lock"

\* the call of thread r leaves its retry loop in this step for one of the three reasons:
\* the request was handed to a CONNECTED handler, the attempt failed and is_connected ()
\* of the main connection was true, or reset_main_connection returned
\* ER_CONN_NO_PAGE_SERVER_AVAILABLE
LeavesLoopForAReason(r) ==
  (requester[r].pc # "done" /\ requester'[r].pc = "done") =>
     \/ requester'[r].err_code = NO_ERROR /\ requester'[r].delivered # 0
     \/ requester'[r].err_code # NO_ERROR /\ requester'[r].saw_connected
     \/ requester'[r].err_code = ER_CONN_NO_PAGE_SERVER_AVAILABLE /\ rmc[r].pc = "done"

\* C32: tran_server::push_request and tran_server::send_receive terminate once the
\* states of the handlers stop changing (as long as the process lives), leaving the retry
\* loop because the request was handed to a CONNECTED handler, because the attempt failed
\* on a handler still reported connected, or because reset_main_connection reported
\* ER_CONN_NO_PAGE_SERVER_AVAILABLE; and a reset_main_connection waiting for
\* m_main_conn_mtx exclusively gets it: the requests that hold the lock shared do not
\* hold it forever.
C32_RequestsTerminate ==
  /\ [][\A r \in Requesters : LeavesLoopForAReason(r)]_vars
  /\ (<>[][m_state' = m_state]_vars) =>
        /\ \A r \in Requesters : InRequest(r) ~> (~InRequest(r) \/ ~Alive)
        /\ \A t \in Threads : ResetPending(t) ~> (~ResetPending(t) \/ ~Alive)

====
